---- MODULE Spec2Model ----
(***************************************************************************)
(* The sync jobs of the "center" service.                                  *)
(*                                                                         *)
(*   server.js            cron and GET triggers, the onSiteRunning guard   *)
(*   onsite/onSiteSync.js the On-Site -> Webflow run (main)                *)
(*   appfolio server      cron and GET triggers, the appFolioRunning guard *)
(*   appfolio/appfolioSync.js  the AppFolio -> Webflow run (main)          *)
(*   rentcafe/job.js      the RentCafe run (runSyncJob)                    *)
(*                                                                         *)
(* A run is an async function: it is suspended at one await at a time.     *)
(* pc names the await a run is suspended at, and one action is the code    *)
(* that runs from the settling of that await to the next await.            *)
(***************************************************************************)
EXTENDS Integers, Sequences, FiniteSets, TLC

(***************************************************************************)
(* Bounds of the model.                                                    *)
(***************************************************************************)
\* The first NumProps entries of propertyEndpoints are configured.
NumProps == 3
\* The page size of the paginated store read (limit=100 in the requests).
PageLimit == 2
\* Triggers (cron ticks and GET requests) a behaviour holds at most.
MaxTriggers == 2
\* Executions of a job in flight beyond the tracked one.
MaxOverlap == 1
\* The largest collection a helper called on its own reads.
MaxItems == 4
\* The most units a RentCafe availability response lists.
MaxUnits == 3
\* The seconds a call is followed for while it waits before a retry.
MaxWait == 3

(***************************************************************************)
(* Program constants.                                                      *)
(***************************************************************************)
\* retry = 3, the default of fetchAllWebflowData and updateWebflowItem.
RetryBudget == 3

(***************************************************************************)
(* JavaScript values.  A value is a record of one shape, so that any two   *)
(* values can be compared.  Numbers are amounts in cents.                  *)
(***************************************************************************)
Null == [t |-> "null", n |-> 0, s |-> ""]
Undefined == [t |-> "undefined", n |-> 0, s |-> ""]
Num(c) == [t |-> "number", n |-> c, s |-> ""]
Str(x) == [t |-> "string", n |-> 0, s |-> x]
Bool(b) == [t |-> "boolean", n |-> IF b THEN 1 ELSE 0, s |-> ""]

\* JSON.stringify of a value.  JSON.stringify(undefined) is undefined, which
\* differs from every JSON text.
JSONstringify(v) ==
  CASE v.t = "null" -> "null"
    [] v.t = "undefined" -> "<undefined>"
    [] v.t = "number" -> ToString(v.n)
    [] v.t = "string" -> "\"" \o v.s \o "\""
    [] v.t = "boolean" -> IF v.n = 1 THEN "true" ELSE "false"

\* obj[k]: undefined for a key the object lacks.
Get(obj, k) == IF k \in DOMAIN obj THEN obj[k] ELSE Undefined

\* A comparison that reports every field of newData.
logChanges_all(oldData, newData) == DOMAIN newData

\* logChanges(oldData, newData): the fields of newData whose JSON text
\* differs from the JSON text of the same field of oldData.
logChanges(oldData, newData) ==
  { k \in DOMAIN newData :
      JSONstringify(Get(oldData, k)) # JSONstringify(newData[k]) }

(***************************************************************************)
(* Utility helpers of onSiteSync.js and appfolioSync.js, on the strings    *)
(* and numbers the model uses.                                             *)
(***************************************************************************)
\* The raw text of a number that parseFloat cannot read.
NaN == -1

\* String.prototype.toLowerCase
toLowerCase(s) ==
  CASE s = "A 3" -> "a 3"
    [] s = "A-3" -> "a-3"
    [] s = "PH1" -> "ph1"
    [] s = "Vacant Unrented" -> "vacant unrented"
    [] s = "Vacant Rented" -> "vacant rented"
    [] s = "Vacant Unrented Ready" -> "vacant unrented ready"
    [] s = "Occupied No Notice" -> "occupied no notice"
    [] OTHER -> s

\* trim, lower-case, runs of white space to "-"
generateSlug(s) == CASE s = "A 3" -> "a-3" [] OTHER -> toLowerCase(s)

\* parseFloat of the digits of the text; null when it is no number
convertNumber(v) == IF v = NaN THEN Null ELSE Num(v)

\* Math.ceil of a number (to whole units, 100 cents); other values unchanged
roundUp(v) ==
  IF v.t = "number" THEN Num(((v.n + 99) \div 100) * 100) ELSE v

\* String(v).toLowerCase() === 'true'
convertBoolean(b) == Bool((IF b THEN "true" ELSE "false") = "true")

\* new Date(v).toISOString(); null for an absent or invalid date
convertDate(v) ==
  IF v = "" \/ v = "invalid" THEN Null ELSE Str(v \o "T00:00:00.000Z")

(***************************************************************************)
(* Configuration.                                                          *)
(***************************************************************************)
propertyEndpoints == <<"NOLANMAINS", "ALVERA", "ZENITH", "THEWALKWAY">>
Props == 1 .. NumProps

apartmentsCollectionId(p) == propertyEndpoints[p] \o "_APARTMENTS_COLLECTION_ID"
floorplansCollectionId(p) == propertyEndpoints[p] \o "_FLOORPLANS_COLLECTION_ID"

\* appfolioSync.js reads the NOLANMAINS_* environment variables.
AppFolioProp == 1
COLLECTION_ID == apartmentsCollectionId(AppFolioProp)

HasFloorplans(p) == propertyEndpoints[p] = "ALVERA"

Collections ==
  { apartmentsCollectionId(p) : p \in Props } \cup
  { floorplansCollectionId(p) : p \in { q \in Props : HasFloorplans(q) } }

(***************************************************************************)
(* The source data.  What the On-Site XML feeds of a property parse to,    *)
(* and what the AppFolio listings page parses to.                          *)
(***************************************************************************)
Unit(num, date, eff, rent) ==
  [num |-> num, date |-> date, eff |-> eff, rent |-> rent]

\* units.xml: a unit without apartment-num, a unit ("A 3") the store has no
\* item for, and two units the store has items for.
allUnits ==
  << Unit("101", "2025-03-05", 120000, 123410),
     Unit("", "", NaN, NaN),
     Unit("A 3", "", 99900, 99900),
     Unit("102", "", 150000, 150000) >>

\* A feed that lists unit 102 a second time, with another rent.
duplicateUnit == Unit("102", "", 160000, 160000)

\* a.allUnits of the apartment of property p: the feed of ZENITH lists unit
\* 102 twice, the other feeds list each unit once.
OS_allUnits(p) ==
  IF propertyEndpoints[p] = "ZENITH" THEN Append(allUnits, duplicateUnit) ELSE allUnits

\* units.xml?available_only=true
availableUnits == << Unit("101", "2025-03-05", 120000, 123410) >>

\* the unit-styles of the property feed; the minimum rent is 1200.10
floorplans == << [styleId |-> "s1", min |-> 120010, max |-> 150000, numAvailable |-> 1] >>

\* The map fetchAppFolioUnits builds from the listings page: slug -> listing.
unitMap ==
  [ slug \in {"101", "102"} |->
      IF slug = "101"
        THEN [unit |-> "101", rent |-> Num(123500), availableIso |-> Str("2025-03-05T00:00:00.000Z")]
        ELSE [unit |-> "102", rent |-> Num(150000), availableIso |-> Null] ]

(***************************************************************************)
(* The store (Webflow CMS).  A collection is a sequence of items; an item  *)
(* is [id, fieldData], fieldData a map from field names to values, slug    *)
(* included.                                                               *)
(***************************************************************************)
Item(id, fieldData) == [id |-> id, fieldData |-> fieldData]

UnitFields(slug, date, eff, orig, show) ==
  [ k \in {"slug", "available-date", "effective-rent-amount",
           "original-rent-amount", "show-online"} |->
      CASE k = "slug" -> Str(slug)
        [] k = "available-date" -> date
        [] k = "effective-rent-amount" -> eff
        [] k = "original-rent-amount" -> orig
        [] k = "show-online" -> Bool(show) ]

FloorplanFields(slug, min, max, count) ==
  [ k \in {"slug", "minimum-rent", "maximum-rent", "available-units-count"} |->
      CASE k = "slug" -> Str(slug)
        [] k = "minimum-rent" -> min
        [] k = "maximum-rent" -> max
        [] k = "available-units-count" -> count ]

\* The slugs of the items of an apartments collection, in the store's order.
StoreSlugs == <<"101", "102", "103">>

\* Item ids are opaque: 100 * p + k for the k-th apartment item of property
\* p, 100 * p + 50 + k for its k-th floorplan item.
ApartmentItemId(p, k) == 100 * p + k
FloorplanItemId(p, k) == 100 * p + 50 + k

\* An item no run has written yet: hidden, no date, no rents.
Blank(slug) == UnitFields(slug, Null, Null, Null, FALSE)
\* An item listed with values of an older feed.
Listed(slug) ==
  UnitFields(slug, Str("2025-01-01T00:00:00.000Z"), Num(100000), Num(100000), TRUE)

(***************************************************************************)
(* The field data the processors compute for one source record.            *)
(***************************************************************************)
\* updateUnits: avail, the lower-cased numbers of the available units
avail == { toLowerCase(availableUnits[i].num) : i \in DOMAIN availableUnits }

\* updateUnits: newData of a unit
OS_unitNewData(unit) ==
  [ k \in {"available-date", "effective-rent-amount",
           "original-rent-amount", "show-online"} |->
      CASE k = "available-date" -> convertDate(unit.date)
        [] k = "effective-rent-amount" -> roundUp(convertNumber(unit.eff))
        [] k = "original-rent-amount" -> roundUp(convertNumber(unit.rent))
        [] k = "show-online" -> convertBoolean(toLowerCase(unit.num) \in avail) ]

\* parseRent: the number, 0 when there is none
parseRent(v) == IF convertNumber(v).t = "number" THEN convertNumber(v) ELSE Num(0)

\* updateFloorPlans: newData of a floorplan
OS_floorplanNewData(fp) ==
  [ k \in {"minimum-rent", "maximum-rent", "available-units-count"} |->
      CASE k = "minimum-rent" -> parseRent(fp.min)
        [] k = "maximum-rent" -> parseRent(fp.max)
        [] k = "available-units-count" ->
             IF convertNumber(fp.numAvailable) \in {Null, Num(0)}
               THEN Num(0) ELSE convertNumber(fp.numAvailable) ]

\* updateUnitsFromAppFolio: newData of a store item whose slug is on the
\* listings page (hit) and of one whose slug is not.
AF_hitNewData(hit) ==
  [ k \in {"available-date", "effective-rent-amount",
           "original-rent-amount", "show-online"} |->
      CASE k = "available-date" -> hit.availableIso
        [] k = "effective-rent-amount" -> roundUp(hit.rent)
        [] k = "original-rent-amount" -> roundUp(hit.rent)
        [] k = "show-online" -> Bool(TRUE) ]

\* newData that also clears the slug of the item.
AF_missNewData_clearsSlug ==
  [ k \in {"show-online", "available-date", "slug"} |->
      IF k = "show-online" THEN Bool(FALSE) ELSE Null ]

AF_missNewData ==
  [ k \in {"show-online", "available-date"} |->
      IF k = "show-online" THEN Bool(FALSE) ELSE Null ]

\* The store applies a PATCH: the fields sent replace the item's, the others stay.
Merge(fieldData, sent) ==
  [ k \in DOMAIN fieldData \cup DOMAIN sent |->
      IF k \in DOMAIN sent THEN sent[k] ELSE fieldData[k] ]

(***************************************************************************)
(* The initial store: each item is as an earlier complete run of the       *)
(* service left it, or holds older values.                                 *)
(***************************************************************************)
UnitOfSlug(slug) ==
  allUnits[CHOOSE i \in DOMAIN allUnits : generateSlug(allUnits[i].num) = slug]

OS_Synced(slug) == Merge(Blank(slug), OS_unitNewData(UnitOfSlug(slug)))
AF_Synced(slug) == Merge(Blank(slug), AF_hitNewData(unitMap[slug]))

\* The items of an apartments collection, each with the field data F gives
\* for its slug.
ApartmentItems(p, F) ==
  << Item(ApartmentItemId(p, 1), F[StoreSlugs[1]]),
     Item(ApartmentItemId(p, 2), F[StoreSlugs[2]]),
     Item(ApartmentItemId(p, 3), F[StoreSlugs[3]]) >>

\* On-Site: the collection of a property holds the values of an older feed,
\* or is as a complete run left it.  Slug "103" is in no feed.
OS_Stale == [ slug \in {"101", "102", "103"} |->
                IF slug = "103" THEN Blank(slug) ELSE Listed(slug) ]
OS_Fresh == [ slug \in {"101", "102", "103"} |->
                IF slug = "103" THEN Blank(slug) ELSE OS_Synced(slug) ]

\* AppFolio: each item of COLLECTION_ID is listed with older values or is as
\* a complete run left it; the other collections are not touched.
AF_Options ==
  [ {"101", "102", "103"} ->
      { Listed("101"), Listed("102"), Listed("103"),
        AF_Synced("101"), AF_Synced("102"), Blank("103") } ]

AF_FieldData ==
  { F \in AF_Options :
      /\ F["101"] \in {Listed("101"), AF_Synced("101")}
      /\ F["102"] \in {Listed("102"), AF_Synced("102")}
      /\ F["103"] \in {Listed("103"), Blank("103")} }

FloorplanBlank == FloorplanFields("s1", Null, Null, Null)
FloorplanSynced == Merge(FloorplanBlank, OS_floorplanNewData(floorplans[1]))

\* The property a collection id belongs to.
PropOf(c) ==
  CHOOSE p \in Props : c \in {apartmentsCollectionId(p), floorplansCollectionId(p)}

IsApartments(c) == c = apartmentsCollectionId(PropOf(c))

\* server.js: the apartments collections of the properties in `fresh` are
\* synced, the others stale; the floorplan item holds fp.
OS_Store(fresh, fp) ==
  [ c \in Collections |->
      IF IsApartments(c)
        THEN ApartmentItems(PropOf(c), IF PropOf(c) \in fresh THEN OS_Fresh ELSE OS_Stale)
        ELSE << Item(FloorplanItemId(PropOf(c), 1), fp) >> ]

\* The AppFolio server: COLLECTION_ID holds the field data F.
AF_Store(F) ==
  [ c \in Collections |->
      IF c = COLLECTION_ID THEN ApartmentItems(AppFolioProp, F)
      ELSE IF IsApartments(c) THEN ApartmentItems(PropOf(c), OS_Stale)
      ELSE << Item(FloorplanItemId(PropOf(c), 1), FloorplanBlank) >> ]

InitialStores(srv) ==
  IF srv = "unified"
    THEN { OS_Store(fresh, fp) :
             fresh \in SUBSET Props, fp \in {FloorplanBlank, FloorplanSynced} }
    ELSE { AF_Store(F) : F \in AF_FieldData }

(***************************************************************************)
(* State.                                                                  *)
(***************************************************************************)
VARIABLES
  server,          \* which server file the process runs: "unified" (server.js) or "appfolio"
  env,             \* process.env: "set", or "missing": appfolioSync.js lacks the
                   \* NOLANMAINS_* variables, onSiteSync.js the ALVERA_* ones
  store,           \* the store: collection id -> sequence of items
  run,             \* the tracked execution of main: where it is suspended, and its locals
  result,          \* the promise of the tracked main: "none", "pending", "resolved", "rejected"
  hist,            \* the requests of the tracked execution, by property
  onSiteRunning,   \* server.js: the run flag of safeOnSiteRun
  appFolioRunning, \* appfolio server: the run flag of safeAppFolioRun
  guarded,         \* the execution a safe*Run call awaits: "none", "tracked", "other"
  trigger,         \* the trigger of that call: "none", "cron", "manual"
  others,          \* executions of main in flight beside the tracked one
  stats,           \* counts of triggers and of their outcomes
  rcEnabled,       \* server.js: ENABLE_RENTCAFE === '1'
  rcRuns,          \* rentcafe/job.js: the executions of runSyncJob, slot -> position
  rcStats,         \* counts of RentCafe triggers and of their outcomes
  call,            \* one call of a Webflow helper on its own: its locals and its result
  framer           \* rentcafe/framerSync.js: the units of two requests of the units route

runVars == <<run, result, hist>>
guardVars == <<onSiteRunning, appFolioRunning, guarded, trigger, stats>>
rcVars == <<rcEnabled, rcRuns, rcStats>>
pureVars == <<call, framer>>
vars == <<server, env, store, run, result, hist, onSiteRunning, appFolioRunning,
          guarded, trigger, others, stats, rcEnabled, rcRuns, rcStats, call, framer>>

\* A main that is not executing.
Idle ==
  [pc |-> "idle", prop |-> 0, apartments |-> <<>>, a |-> 0, kind |-> "",
   coll |-> "", offset |-> 0, retry |-> 0, items |-> <<>>, u |-> 0, patchRetry |-> 0]

NoRequests ==
  [ p \in Props |->
      [fetched |-> "none", read |-> {}, loaded |-> {}, needed |-> {},
       attempted |-> {}, failed |-> {}, publishes |-> 0, publishFailed |-> FALSE,
       afterClean |-> FALSE, throttled |-> FALSE] ]

NoStats ==
  [triggers |-> 0, admitted |-> 0, skipped |-> 0, started |-> 0, unguarded |-> 0,
   responded |-> 0, unanswered |-> 0, rejections |-> 0]

\* No helper is being called on its own.
NoCall ==
  [fn |-> "none", variant |-> "none", coll |-> <<>>, offset |-> 0, retry |-> 0,
   items |-> <<>>, sent |-> 0, log |-> <<>>, outcome |-> "none",
   oldData |-> <<>>, newData |-> <<>>, changes |-> {},
   header |-> Null, wait |-> 0, elapsed |-> 0, retried |-> FALSE,
   slug |-> "", found |-> 0]

\* No request of the Framer units route is being handled.
NoFramer ==
  [pc |-> "none", raw |-> <<>>, swapped |-> <<>>, units |-> <<>>, other |-> <<>>,
   token |-> "", auth |-> "", fetches |-> 0, route |-> "none", since |-> "",
   slug |-> "", status |-> 0, items |-> <<>>]

RcSlots == 1 .. (MaxOverlap + 1)

\* A runSyncJob that is not executing.
RcIdle == [pc |-> "idle", by |-> "none"]

NoRcStats ==
  [triggers |-> 0, started |-> 0, resolved |-> 0, rejected |-> 0,
   responded |-> 0, unanswered |-> 0, gone |-> 0]

Init ==
  /\ server \in {"unified", "appfolio"}
  /\ env \in {"set", "missing"}
  /\ store \in InitialStores(server)
  /\ run = Idle
  /\ result = "none"
  /\ hist = NoRequests
  /\ onSiteRunning = FALSE
  /\ appFolioRunning = FALSE
  /\ guarded = "none"
  /\ trigger = "none"
  /\ others = 0
  /\ stats = NoStats
  /\ rcEnabled = FALSE
  /\ rcRuns = [i \in RcSlots |-> RcIdle]
  /\ rcStats = NoRcStats
  /\ call = NoCall
  /\ framer = NoFramer

(***************************************************************************)
(* The paginated store read and the processors' loops, as functions of the *)
(* run's locals.                                                           *)
(***************************************************************************)
Min(S) == CHOOSE x \in S : \A y \in S : x <= y

\* GET .../items?offset=o&limit=PageLimit: the page of a collection
Page(collection, o) ==
  SubSeq(collection, o + 1,
         IF o + PageLimit < Len(collection) THEN o + PageLimit ELSE Len(collection))

\* items.find(i => i.fieldData.slug === slug): its index, 0 when there is none
FindItem(items, slug) ==
  LET hits == { j \in DOMAIN items : Get(items[j].fieldData, "slug") = Str(slug) }
  IN  IF hits = {} THEN 0 ELSE Min(hits)

\* updateUnits, one unit: the index of the item it is written to (0: the unit
\* is skipped) and the data.
OS_unitItem(p, items, i) ==
  IF OS_allUnits(p)[i].num = ""
    THEN 0 ELSE FindItem(items, generateSlug(OS_allUnits(p)[i].num))

\* updateFloorPlans, one floorplan
OS_floorplanItem(items, i) ==
  IF floorplans[i].styleId = "" THEN 0 ELSE FindItem(items, floorplans[i].styleId)

OS_records(p, kind) == IF kind = "units" THEN OS_allUnits(p) ELSE floorplans
OS_item(p, kind, items, i) ==
  IF kind = "units" THEN OS_unitItem(p, items, i) ELSE OS_floorplanItem(items, i)
OS_newData(p, kind, i) ==
  IF kind = "units"
    THEN OS_unitNewData(OS_allUnits(p)[i]) ELSE OS_floorplanNewData(floorplans[i])

\* The id of the item record i is written to; 0 when it has no item.
OS_itemId(p, kind, items, i) ==
  IF OS_item(p, kind, items, i) = 0 THEN 0 ELSE items[OS_item(p, kind, items, i)].id

\* A processor that also writes the records that have a slug and no item.
OS_patches_withoutItem(p, kind, items, i) ==
  IF OS_item(p, kind, items, i) = 0
    THEN (IF kind = "units" THEN OS_allUnits(p)[i].num ELSE floorplans[i].styleId) # ""
    ELSE logChanges(items[OS_item(p, kind, items, i)].fieldData, OS_newData(p, kind, i)) # {}

\* Does record i get a PATCH: it has an item and logChanges is not empty.
OS_patches(p, kind, items, i) ==
  /\ OS_item(p, kind, items, i) # 0
  /\ logChanges(items[OS_item(p, kind, items, i)].fieldData, OS_newData(p, kind, i)) # {}

\* The first record from index `from` on that gets a PATCH; 0 when none does.
OS_nextPatch(p, kind, items, from) ==
  LET S == { i \in from .. Len(OS_records(p, kind)) : OS_patches(p, kind, items, i) }
  IN  IF S = {} THEN 0 ELSE Min(S)

\* The ids of the items of a snapshot whose fields differ from the source.
OS_needed(p, kind, items) ==
  { OS_itemId(p, kind, items, i) :
      i \in { j \in DOMAIN OS_records(p, kind) : OS_patches(p, kind, items, j) } }

\* The store after it applied a PATCH of item id in collection c.
Patched(st, c, id, sent) ==
  [ st EXCEPT ![c] =
      [ j \in DOMAIN st[c] |->
          IF st[c][j].id = id
            THEN Item(id, Merge(st[c][j].fieldData, sent))
            ELSE st[c][j] ] ]

(***************************************************************************)
(* The Webflow helpers, one response at a time.                            *)
(***************************************************************************)
\* A helper that retries after every failed response while retries are left.
ShouldRetry_anyFailure(status, retry) == status # "ok" /\ retry # 0

\* if (r.status === 429 && retry): is the request sent again
ShouldRetry(status, retry) == status = "429" /\ retry # 0

\* An updateWebflowItem that calls itself with the retry count it was given.
updateWebflowItemResponse_keepsRetry(retry, resp) ==
  CASE resp = "ok" -> [status |-> "return", retry |-> retry]
    [] ShouldRetry(resp, retry) -> [status |-> "resend", retry |-> retry]
    [] OTHER -> [status |-> "throw", retry |-> retry]

\* updateWebflowItem after the response to its PATCH: it returns true, calls
\* itself with retry - 1, or throws.
updateWebflowItemResponse(retry, resp) ==
  CASE resp = "ok" -> [status |-> "return", retry |-> retry]
    [] ShouldRetry(resp, retry) -> [status |-> "resend", retry |-> retry - 1]
    [] OTHER -> [status |-> "throw", retry |-> retry]

\* A read whose retry is not counted down on a 429 that follows a page.
AF_pageResponse_perPage(offset, retry, items, resp, collection) ==
  LET batch == Page(collection, offset)
  IN  CASE resp = "ok" /\ Len(batch) < PageLimit ->
             [status |-> "return", offset |-> offset, retry |-> retry,
              items |-> items \o batch]
        [] resp = "ok" ->
             [status |-> "next", offset |-> offset + PageLimit, retry |-> retry,
              items |-> items \o batch]
        [] ShouldRetry(resp, retry) ->
             [status |-> "next", offset |-> offset + PageLimit,
              retry |-> IF offset = 0 THEN retry - 1 ELSE retry, items |-> items]
        [] OTHER ->
             [status |-> "throw", offset |-> offset, retry |-> retry, items |-> items]

\* fetchAllWebflowData of appfolioSync.js after the response to a page
\* request.  On a 429 with retries left: retry--; continue; and the continue
\* runs the loop's offset += 100.
AF_pageResponse(offset, retry, items, resp, collection) ==
  LET batch == Page(collection, offset)
  IN  CASE resp = "ok" /\ Len(batch) < PageLimit ->
             [status |-> "return", offset |-> offset, retry |-> retry,
              items |-> items \o batch]
        [] resp = "ok" ->
             [status |-> "next", offset |-> offset + PageLimit, retry |-> retry,
              items |-> items \o batch]
        [] ShouldRetry(resp, retry) ->
             [status |-> "next", offset |-> offset + PageLimit, retry |-> retry - 1,
              items |-> items]
        [] OTHER ->
             [status |-> "throw", offset |-> offset, retry |-> retry, items |-> items]

\* A read that asks for the next page after a 429, keeping what it has.
OS_pageResponse_continue(offset, retry, items, resp, collection) ==
  AF_pageResponse(offset, retry, items, resp, collection)

\* fetchAllWebflowData of onSiteSync.js after the response to a page request.
\* On a 429 with retries left: return fetchAllWebflowData(collectionId,
\* token, retry - 1), a read from offset 0 with no items.
OS_pageResponse(offset, retry, items, resp, collection) ==
  LET batch == Page(collection, offset)
  IN  CASE resp = "ok" /\ Len(batch) < PageLimit ->
             [status |-> "return", offset |-> offset, retry |-> retry,
              items |-> items \o batch]
        [] resp = "ok" ->
             [status |-> "next", offset |-> offset + PageLimit, retry |-> retry,
              items |-> items \o batch]
        [] ShouldRetry(resp, retry) ->
             [status |-> "next", offset |-> 0, retry |-> retry - 1, items |-> <<>>]
        [] OTHER ->
             [status |-> "throw", offset |-> offset, retry |-> retry, items |-> items]

(***************************************************************************)
(* How an execution of main settles, and what the guard does then.         *)
(***************************************************************************)
\* A main without the catch: the error leaves main and the promise rejects.
OS_mainOutcome_noCatch(threw) == IF threw THEN "rejected" ELSE "done"

\* onSiteSync.js main: try { ... } catch (err) { logger.error(...) }.  The
\* promise resolves, after "sync done" or after the error is logged.
OS_mainOutcome(threw) == IF threw THEN "failed" ELSE "done"

\* appfolioSync.js main: the same try / catch.
AF_mainOutcome(threw) == IF threw THEN "failed" ELSE "done"

mainOutcome(threw) ==
  IF server = "unified" THEN OS_mainOutcome(threw) ELSE AF_mainOutcome(threw)

\* A guard without finally: the flag is cleared only after a job that ended
\* well.
Release_noFinally(outcome) ==
  /\ onSiteRunning' = IF server = "unified" /\ outcome = "done" THEN FALSE ELSE onSiteRunning
  /\ appFolioRunning' = IF server = "appfolio" /\ outcome = "done" THEN FALSE ELSE appFolioRunning
  /\ guarded' = "none"
  /\ trigger' = "none"
  /\ stats' = stats

\* safeOnSiteRun / safeAppFolioRun after the awaited job settled: the finally
\* clears the flag; the GET handler then answers, unless the await threw.
Release(outcome) ==
  /\ onSiteRunning' = IF server = "unified" THEN FALSE ELSE onSiteRunning
  /\ appFolioRunning' = IF server = "appfolio" THEN FALSE ELSE appFolioRunning
  /\ guarded' = "none"
  /\ trigger' = "none"
  /\ stats' =
       [stats EXCEPT
          !.responded = @ + IF trigger = "manual" /\ outcome # "rejected" THEN 1 ELSE 0,
          !.unanswered = @ + IF trigger = "manual" /\ outcome = "rejected" THEN 1 ELSE 0,
          !.rejections = @ + IF outcome = "rejected" THEN 1 ELSE 0]

\* The tracked main settles.
Settle(threw) ==
  /\ run' = Idle
  /\ result' = mainOutcome(threw)
  /\ IF guarded = "tracked" THEN Release(mainOutcome(threw)) ELSE UNCHANGED guardVars

\* The tracked run goes on to its next await, or main returns.
Advance(st) ==
  /\ hist' = st.hist
  /\ IF st.run.pc = "return"
       THEN Settle(FALSE)
       ELSE /\ run' = st.run
            /\ result' = result
            /\ UNCHANGED guardVars

\* An error is thrown inside the tracked run and reaches main.
Throw == hist' = hist /\ Settle(TRUE)

(***************************************************************************)
(* Requests of the tracked run.  st is [run, hist]; each operator gives    *)
(* the run suspended at the request it sent.                               *)
(***************************************************************************)
\* fetchAllWebflowData(collectionId, token): the first page is requested
SendGet(st, p, kind, c) ==
  [run |-> [st.run EXCEPT !.pc = "load", !.kind = kind, !.coll = c, !.offset = 0,
                          !.retry = RetryBudget, !.items = <<>>, !.u = 0,
                          !.patchRetry = 0],
   hist |-> [st.hist EXCEPT ![p].read = @ \cup {c}]]

\* updateWebflowItem(item.id, collectionId, newData, token): the PATCH is sent
SendPatch(st, p, i, id) ==
  [run |-> [st.run EXCEPT !.pc = "patch", !.u = i, !.patchRetry = RetryBudget],
   hist |-> [st.hist EXCEPT ![p].attempted = @ \cup {id}]]

\* A publish that is requested twice.
SendPublish_twice(st, p) ==
  [run |-> [st.run EXCEPT !.pc = "publish", !.u = 0, !.patchRetry = 0],
   hist |-> [st.hist EXCEPT ![p].publishes = @ + 2]]

\* publishUpdates of onSiteSync.js: the POST is sent
SendPublish(st, p) ==
  [run |-> [st.run EXCEPT !.pc = "publish", !.u = 0, !.patchRetry = 0],
   hist |-> [st.hist EXCEPT ![p].publishes = @ + 1]]

(***************************************************************************)
(* onSiteSync.js: updateWebflowCollections, updateUnits, updateFloorPlans. *)
(***************************************************************************)
\* The property updateWebflowCollections is at.
OS_prop(r) == r.apartments[r.a]

\* updateWebflowCollections after the processors of property p: the
\* floorplans of ALVERA are read, or the site is published.
OS_afterProcessor(st, p) ==
  IF st.run.kind = "units" /\ HasFloorplans(p)
    THEN SendGet(st, p, "floorplans", floorplansCollectionId(p))
    ELSE SendPublish(st, p)

\* A loop that ends after its first PATCH.
OS_process_breakAfterFirst(st, p, from) ==
  LET i == OS_nextPatch(p, st.run.kind, st.run.items, from)
  IN  IF i # 0 /\ from = 1
        THEN SendPatch(st, p, i, OS_itemId(p, st.run.kind, st.run.items, i))
        ELSE OS_afterProcessor(st, p)

\* The loop of updateUnits / updateFloorPlans from record `from` on: it runs
\* to the first record that gets a PATCH, or to its end.
OS_process(st, p, from) ==
  LET i == OS_nextPatch(p, st.run.kind, st.run.items, from)
  IN  IF i # 0
        THEN SendPatch(st, p, i, OS_itemId(p, st.run.kind, st.run.items, i))
        ELSE OS_afterProcessor(st, p)

\* for (const a of apartments): the next apartment, or the loop's end.
OS_nextApartment(st) ==
  IF st.run.a < Len(st.run.apartments)
    THEN SendGet([st EXCEPT !.run.a = @ + 1], st.run.apartments[st.run.a + 1],
                 "units", apartmentsCollectionId(st.run.apartments[st.run.a + 1]))
    ELSE [st EXCEPT !.run.pc = "return"]

\* The execution of main before this one read the feeds of property p and
\* returned after "sync done": each of its PATCHes was applied.
CleanRun(p) == result = "done" /\ hist[p].fetched = "ok"

\* main is called: it calls fetchApartmentData, which requests the feeds of
\* the first property.
OS_main ==
  [run |-> [Idle EXCEPT !.pc = "fetch", !.prop = 1],
   hist |-> [ p \in Props |-> [NoRequests[p] EXCEPT !.afterClean = CleanRun(p)] ]]

\* fetchApartmentData: the three feeds of property run.prop arrive and are
\* parsed, or the fetch or the parse fails (caught, logged, next property).
OS_fetchApartmentData ==
  /\ server = "unified"
  /\ run.pc = "fetch"
  /\ \E outcome \in {"ok", "fetchError", "parseError"} :
       LET p == run.prop
           r == [run EXCEPT !.apartments =
                   IF outcome = "ok" THEN Append(@, p) ELSE @]
           h == [hist EXCEPT ![p].fetched = IF outcome = "ok" THEN "ok" ELSE "failed"]
       IN  IF p < NumProps
             THEN Advance([run |-> [r EXCEPT !.prop = p + 1], hist |-> h])
             ELSE Advance(OS_nextApartment([run |-> [r EXCEPT !.prop = 0], hist |-> h]))
  /\ UNCHANGED <<server, env, store, others, rcVars, pureVars>>

\* propertyEndpoints[p].webflowApiKey, apartmentsCollectionId and siteId are
\* read from process.env when the file loads, and nothing checks them.
OS_configured(p) == env = "set" \/ propertyEndpoints[p] # "ALVERA"

\* The answers of the store to a request for property p: without the token
\* and the collection id the request is refused.
OS_responses(p) == IF OS_configured(p) THEN {"ok", "429", "error"} ELSE {"error"}

\* fetchAllWebflowData of onSiteSync.js: the response to a page request.
OS_fetchAllWebflowData ==
  /\ server = "unified"
  /\ run.pc = "load"
  /\ \E resp \in OS_responses(OS_prop(run)) :
       LET p == OS_prop(run)
           n == OS_pageResponse(run.offset, run.retry, run.items, resp, store[run.coll])
           r == [run EXCEPT !.offset = n.offset, !.retry = n.retry, !.items = n.items]
       IN  CASE n.status = "return" ->
                  Advance(OS_process(
                    [run |-> r,
                     hist |-> [hist EXCEPT ![p].loaded = @ \cup {run.coll},
                                           ![p].needed = @ \cup OS_needed(p, run.kind, n.items)]],
                    p, 1))
             [] n.status = "next" -> Advance([run |-> r, hist |-> hist])
             [] OTHER -> Throw
  /\ UNCHANGED <<server, env, store, others, rcVars, pureVars>>

\* updateWebflowItem of onSiteSync.js: the response to a PATCH.
OS_updateWebflowItem ==
  /\ server = "unified"
  /\ run.pc = "patch"
  /\ \E resp \in {"ok", "429", "error"} :
       LET p == OS_prop(run)
           id == OS_itemId(p, run.kind, run.items, run.u)
           n == updateWebflowItemResponse(run.patchRetry, resp)
       IN  CASE n.status = "return" ->
                  /\ store' = Patched(store, run.coll, id, OS_newData(p, run.kind, run.u))
                  /\ Advance(OS_process([run |-> run, hist |-> hist], p, run.u + 1))
             [] n.status = "resend" ->
                  /\ store' = store
                  /\ Advance([run |-> [run EXCEPT !.patchRetry = n.retry], hist |-> hist])
             [] OTHER ->
                  /\ store' = store
                  /\ hist' = [hist EXCEPT ![p].failed = @ \cup {id}]
                  /\ Settle(TRUE)
  /\ UNCHANGED <<server, env, others, rcVars, pureVars>>

\* publishUpdates of onSiteSync.js: the response to the POST.
OS_publishUpdates ==
  /\ server = "unified"
  /\ run.pc = "publish"
  /\ \E resp \in {"ok", "429", "error"} :
       IF resp = "ok"
         THEN Advance(OS_nextApartment([run |-> run, hist |-> hist]))
         ELSE /\ hist' = [hist EXCEPT ![OS_prop(run)].publishFailed = TRUE]
              /\ Settle(TRUE)
  /\ UNCHANGED <<server, env, store, others, rcVars, pureVars>>

(***************************************************************************)
(* Triggers of the unified server.                                         *)
(***************************************************************************)
\* const { main: onSiteJob } = require('./onsite/onSiteSync'): onSiteSync.js
\* assigns nothing to module.exports, so onSiteJob is undefined.
onSiteExports == {}
onSiteJob == IF "main" \in onSiteExports THEN "main" ELSE "undefined"

\* module.exports = { main } of appfolioSync.js
appFolioExports == {"main"}
appFolioJob == IF "main" \in appFolioExports THEN "main" ELSE "undefined"

\* An execution of main starts: the tracked one when none is tracked.
StartMain(st, guard) ==
  IF run.pc = "idle"
    THEN /\ run' = st.run
         /\ hist' = st.hist
         /\ result' = "pending"
         /\ others' = others
         /\ guarded' = IF guard THEN "tracked" ELSE guarded
    ELSE /\ others < MaxOverlap
         /\ others' = others + 1
         /\ UNCHANGED runVars
         /\ guarded' = IF guard THEN "other" ELSE guarded

\* cron.schedule('*/15 * * * *', () => { main() }) of onSiteSync.js, which
\* server.js loads with require: main is called without the guard.
OS_cron ==
  /\ server = "unified"
  /\ stats.triggers < MaxTriggers
  /\ StartMain(OS_main, FALSE)
  /\ stats' = [stats EXCEPT !.triggers = @ + 1, !.unguarded = @ + 1]
  /\ UNCHANGED <<server, env, store, onSiteRunning, appFolioRunning, trigger, rcVars, pureVars>>

\* An execution of main that is not the tracked one settles.
OthersSettle ==
  /\ others > 0
  /\ others' = others - 1
  /\ IF guarded = "other" THEN Release(mainOutcome(FALSE)) ELSE UNCHANGED guardVars
  /\ UNCHANGED <<server, env, store, runVars, rcVars, pureVars>>

\* safeOnSiteRun(trig), and for 'manual' the GET /sync-onsite handler that
\* awaits it.
safeOnSiteRun(trig) ==
  /\ server = "unified"
  /\ stats.triggers < MaxTriggers
  /\ IF onSiteRunning
       THEN \* skipped: logs and returns; the GET handler answers
            /\ stats' = [stats EXCEPT !.triggers = @ + 1, !.skipped = @ + 1,
                           !.responded = @ + IF trig = "manual" THEN 1 ELSE 0]
            /\ UNCHANGED <<onSiteRunning, guarded, trigger, runVars, others>>
       ELSE IF onSiteJob = "undefined"
         THEN \* onSiteRunning = true; onSiteJob() throws a TypeError; the
              \* finally clears the flag; the promise rejects, and the GET
              \* handler never answers
              /\ onSiteRunning' = FALSE
              /\ stats' = [stats EXCEPT !.triggers = @ + 1, !.admitted = @ + 1,
                             !.rejections = @ + 1,
                             !.unanswered = @ + IF trig = "manual" THEN 1 ELSE 0]
              /\ UNCHANGED <<guarded, trigger, runVars, others>>
         ELSE /\ onSiteRunning' = TRUE
              /\ trigger' = trig
              /\ StartMain(OS_main, TRUE)
              /\ stats' = [stats EXCEPT !.triggers = @ + 1, !.admitted = @ + 1,
                             !.started = @ + 1]
  /\ UNCHANGED <<server, env, store, appFolioRunning, rcVars, pureVars>>

\* cron.schedule('*/15 * * * *', () => safeOnSiteRun('cron')) of server.js
OnSiteCronTick == safeOnSiteRun("cron")

\* app.get('/sync-onsite', ...)
GetSyncOnsite == safeOnSiteRun("manual")

(***************************************************************************)
(* appfolioSync.js: main, fetchAppFolioUnits, fetchAllWebflowData,         *)
(* updateUnitsFromAppFolio, publishUpdates.                                *)
(***************************************************************************)
\* updateUnitsFromAppFolio without its last part: an item that is not on the
\* listings page is left alone.
AF_newData_noHide(item) ==
  IF item.fieldData["slug"].s \in DOMAIN unitMap
    THEN AF_hitNewData(unitMap[item.fieldData["slug"].s])
    ELSE [k \in {} |-> Null]

\* updateUnitsFromAppFolio, one store item: the data written to it
AF_newData(item) ==
  IF item.fieldData["slug"].s \in DOMAIN unitMap
    THEN AF_hitNewData(unitMap[item.fieldData["slug"].s])
    ELSE AF_missNewData

\* Does item j of the snapshot get a PATCH: it has a slug and logChanges is
\* not empty.
AF_patches(items, j) ==
  /\ Get(items[j].fieldData, "slug") \notin {Undefined, Null, Str("")}
  /\ logChanges(items[j].fieldData, AF_newData(items[j])) # {}

AF_nextPatch(items, from) ==
  LET S == { j \in from .. Len(items) : AF_patches(items, j) }
  IN  IF S = {} THEN 0 ELSE Min(S)

AF_needed(items) == { items[j].id : j \in { k \in DOMAIN items : AF_patches(items, k) } }

\* publishUpdates of appfolioSync.js begins: customDomainIds is 'AUTO', so
\* the custom domains of the site are requested first.
AF_sendDomains(st) ==
  [run |-> [st.run EXCEPT !.pc = "domains", !.u = 0, !.patchRetry = 0], hist |-> st.hist]

\* The loop of updateUnitsFromAppFolio from item `from` on.
AF_process(st, from) ==
  LET j == AF_nextPatch(st.run.items, from)
  IN  IF j # 0
        THEN SendPatch(st, AppFolioProp, j, st.run.items[j].id)
        ELSE AF_sendDomains(st)

\* main is called with the environment set: it requests the listings page.
AF_main == [run |-> [Idle EXCEPT !.pc = "crawl"], hist |-> NoRequests]

\* fetchAppFolioUnits that parses whatever body the response has.
fetchAppFolioUnitsResponse_anyStatus(resp) == "return"

\* fetchAppFolioUnits: if (!res.ok) throw new Error(...), else the map is
\* returned.
fetchAppFolioUnitsResponse(resp) == IF resp = "ok" THEN "return" ELSE "throw"

\* fetchAppFolioUnits: the response to the GET of the listings page.
AF_fetchAppFolioUnits ==
  /\ server = "appfolio"
  /\ run.pc = "crawl"
  /\ \E resp \in {"ok", "error"} :
       LET h == [hist EXCEPT ![AppFolioProp].fetched =
                                IF resp = "ok" THEN "ok" ELSE "failed"]
       IN  IF fetchAppFolioUnitsResponse(resp) = "return"
             THEN Advance(SendGet([run |-> run, hist |-> h],
                                  AppFolioProp, "units", COLLECTION_ID))
             ELSE /\ hist' = h
                  /\ Settle(TRUE)
  /\ UNCHANGED <<server, env, store, others, rcVars, pureVars>>

\* fetchAllWebflowData of appfolioSync.js: the response to a page request.
\* On a 429 with retries left: retry--; continue; and the continue runs the
\* loop's offset += 100.
AF_fetchAllWebflowData ==
  /\ server = "appfolio"
  /\ run.pc = "load"
  /\ \E resp \in {"ok", "429", "error"} :
       LET n == AF_pageResponse(run.offset, run.retry, run.items, resp, store[run.coll])
           r == [run EXCEPT !.offset = n.offset, !.retry = n.retry, !.items = n.items]
           h == [hist EXCEPT ![AppFolioProp].throttled = @ \/ resp = "429"]
       IN  CASE n.status = "return" ->
                  Advance(AF_process(
                    [run |-> r,
                     hist |-> [h EXCEPT ![AppFolioProp].loaded = @ \cup {run.coll},
                                        ![AppFolioProp].needed = @ \cup AF_needed(n.items)]],
                    1))
             [] n.status = "next" -> Advance([run |-> r, hist |-> h])
             [] OTHER -> Throw
  /\ UNCHANGED <<server, env, store, others, rcVars, pureVars>>

\* updateWebflowItem of appfolioSync.js: the response to a PATCH.
AF_updateWebflowItem ==
  /\ server = "appfolio"
  /\ run.pc = "patch"
  /\ \E resp \in {"ok", "429", "error"} :
       CASE updateWebflowItemResponse(run.patchRetry, resp).status = "return" ->
              /\ store' = Patched(store, run.coll, run.items[run.u].id,
                                  AF_newData(run.items[run.u]))
              /\ Advance(AF_process([run |-> run, hist |-> hist], run.u + 1))
         [] updateWebflowItemResponse(run.patchRetry, resp).status = "resend" ->
              /\ store' = store
              /\ Advance([run |-> [run EXCEPT !.patchRetry =
                                     updateWebflowItemResponse(run.patchRetry, resp).retry],
                           hist |-> [hist EXCEPT ![AppFolioProp].throttled = TRUE]])
         [] OTHER ->
              /\ store' = store
              /\ hist' = [hist EXCEPT ![AppFolioProp].failed = @ \cup {run.items[run.u].id}]
              /\ Settle(TRUE)
  /\ UNCHANGED <<server, env, others, rcVars, pureVars>>

\* publishUpdates: the response to the custom-domains request.  A failure is
\* caught (customDomainIds = []); either way the publish POST is sent.
AF_getCustomDomainIds ==
  /\ server = "appfolio"
  /\ run.pc = "domains"
  /\ Advance(SendPublish([run |-> run, hist |-> hist], AppFolioProp))
  /\ UNCHANGED <<server, env, store, others, rcVars, pureVars>>

\* publishUpdates: the response to the publish POST.
AF_publishUpdates ==
  /\ server = "appfolio"
  /\ run.pc = "publish"
  /\ \E resp \in {"ok", "429", "error"} :
       IF resp = "ok"
         THEN Advance([run |-> [run EXCEPT !.pc = "return"], hist |-> hist])
         ELSE /\ hist' = [hist EXCEPT ![AppFolioProp].publishFailed = TRUE]
              /\ Settle(TRUE)
  /\ UNCHANGED <<server, env, store, others, rcVars, pureVars>>

(***************************************************************************)
(* Triggers of the AppFolio server.                                        *)
(***************************************************************************)
\* safeAppFolioRun(trig), and for 'manual' the GET /sync-appfolio handler
\* that awaits it.
safeAppFolioRun(trig) ==
  /\ server = "appfolio"
  /\ stats.triggers < MaxTriggers
  /\ IF appFolioRunning
       THEN /\ stats' = [stats EXCEPT !.triggers = @ + 1, !.skipped = @ + 1,
                           !.responded = @ + IF trig = "manual" THEN 1 ELSE 0]
            /\ UNCHANGED <<appFolioRunning, guarded, trigger, runVars, others>>
       ELSE IF appFolioJob = "undefined"
         THEN /\ appFolioRunning' = FALSE
              /\ stats' = [stats EXCEPT !.triggers = @ + 1, !.admitted = @ + 1,
                             !.rejections = @ + 1,
                             !.unanswered = @ + IF trig = "manual" THEN 1 ELSE 0]
              /\ UNCHANGED <<guarded, trigger, runVars, others>>
         ELSE IF env = "missing"
           THEN \* main throws 'Missing env: ...' before its first await and
                \* catches it: the job has settled when the await resumes
                /\ appFolioRunning' = FALSE
                /\ run' = Idle
                /\ hist' = NoRequests
                /\ result' = AF_mainOutcome(TRUE)
                /\ stats' = [stats EXCEPT !.triggers = @ + 1, !.admitted = @ + 1,
                               !.started = @ + 1,
                               !.responded = @ + IF trig = "manual" /\ AF_mainOutcome(TRUE) # "rejected"
                                                   THEN 1 ELSE 0]
                /\ UNCHANGED <<guarded, trigger, others>>
           ELSE /\ appFolioRunning' = TRUE
                /\ trigger' = trig
                /\ StartMain(AF_main, TRUE)
                /\ stats' = [stats EXCEPT !.triggers = @ + 1, !.admitted = @ + 1,
                               !.started = @ + 1]
  /\ UNCHANGED <<server, env, store, onSiteRunning, rcVars, pureVars>>

\* cron.schedule('*/15 * * * *', () => safeAppFolioRun('cron'))
AppFolioCronTick == safeAppFolioRun("cron")

\* app.get('/sync-appfolio', ...)
GetSyncAppfolio == safeAppFolioRun("manual")

(***************************************************************************)
(* The service: the process runs server.js or the AppFolio server.         *)
(***************************************************************************)
OnSiteNext ==
  \/ OS_cron
  \/ OnSiteCronTick
  \/ GetSyncOnsite
  \/ OS_fetchApartmentData
  \/ OS_fetchAllWebflowData
  \/ OS_updateWebflowItem
  \/ OS_publishUpdates
  \/ OthersSettle

AppFolioNext ==
  \/ AppFolioCronTick
  \/ GetSyncAppfolio
  \/ AF_fetchAppFolioUnits
  \/ AF_fetchAllWebflowData
  \/ AF_updateWebflowItem
  \/ AF_getCustomDomainIds
  \/ AF_publishUpdates

Next == OnSiteNext \/ AppFolioNext

Spec == Init /\ [][Next]_vars

(***************************************************************************)
(* rentcafe/job.js runSyncJob and its triggers in server.js.  The modules  *)
(* ./rentcafeAvailability, ./webflow and ./webflowSync are async functions *)
(* that make HTTP requests: each call resolves or throws.                  *)
(***************************************************************************)
getApartmentAvailabilityOutcomes == {"ok", "throws"}
getAllItemsFromWebflowOutcomes == {"ok", "throws"}
syncWithWebflowOutcomes == {"ok", "throws"}

\* runSyncJob: the awaits inside its try { } catch { return }.
runSyncJobCaught == {"availability"}

\* runSyncJob when the await it is suspended at throws: "returned" when the
\* catch takes it, "rejected" when the error leaves the function.
runSyncJobOnThrow(pc) == IF pc \in runSyncJobCaught THEN "returned" ELSE "rejected"

InitRentCafe ==
  /\ server = "unified"
  /\ env = "set"
  /\ store = CHOOSE st \in InitialStores("unified") : TRUE
  /\ run = Idle
  /\ result = "none"
  /\ hist = NoRequests
  /\ onSiteRunning = FALSE
  /\ appFolioRunning = FALSE
  /\ guarded = "none"
  /\ trigger = "none"
  /\ others = 0
  /\ stats = NoStats
  /\ rcEnabled \in BOOLEAN
  /\ rcRuns = [i \in RcSlots |-> RcIdle]
  /\ rcStats = NoRcStats
  /\ call = NoCall
  /\ framer = NoFramer

rcInFlight == { i \in RcSlots : rcRuns[i].pc # "idle" }

\* rentCafeJob() is called: runSyncJob runs to its first await.
runSyncJob(by) ==
  /\ rcInFlight # RcSlots
  /\ rcRuns' = [rcRuns EXCEPT ![Min(RcSlots \ rcInFlight)] =
                  [pc |-> "availability", by |-> by]]

\* An execution of runSyncJob settles; the GET handler that awaits it
\* answers when the promise resolved.
RC_settle(i, outcome) ==
  /\ rcRuns' = [rcRuns EXCEPT ![i] = RcIdle]
  /\ rcStats' =
       [rcStats EXCEPT
          !.resolved = @ + IF outcome # "rejected" THEN 1 ELSE 0,
          !.rejected = @ + IF outcome = "rejected" THEN 1 ELSE 0,
          !.responded = @ + IF rcRuns[i].by = "manual" /\ outcome # "rejected" THEN 1 ELSE 0,
          !.unanswered = @ + IF rcRuns[i].by = "manual" /\ outcome = "rejected" THEN 1 ELSE 0]

\* cron.schedule('0 */4 * * *', rentCafeJob), scheduled when ENABLE_RENTCAFE
RC_cron ==
  /\ rcEnabled
  /\ rcStats.triggers < MaxTriggers
  /\ runSyncJob("cron")
  /\ rcStats' = [rcStats EXCEPT !.triggers = @ + 1, !.started = @ + 1]
  /\ UNCHANGED <<server, env, store, runVars, guardVars, others, rcEnabled, pureVars>>

\* app.get('/sync-rentcafe', ...): awaits rentCafeJob(), or answers 410
GetSyncRentcafe ==
  /\ rcStats.triggers < MaxTriggers
  /\ IF rcEnabled
       THEN /\ runSyncJob("manual")
            /\ rcStats' = [rcStats EXCEPT !.triggers = @ + 1, !.started = @ + 1]
       ELSE /\ rcRuns' = rcRuns
            /\ rcStats' = [rcStats EXCEPT !.triggers = @ + 1, !.gone = @ + 1]
  /\ UNCHANGED <<server, env, store, runVars, guardVars, others, rcEnabled, pureVars>>

\* 1 - pull from RentCafe: await getApartmentAvailability(...) settles
RC_getApartmentAvailability ==
  /\ \E i \in RcSlots, outcome \in getApartmentAvailabilityOutcomes :
       /\ rcRuns[i].pc = "availability"
       /\ IF outcome = "ok"
            THEN /\ rcRuns' = [rcRuns EXCEPT ![i].pc = "items"]
                 /\ rcStats' = rcStats
            ELSE RC_settle(i, runSyncJobOnThrow("availability"))
  /\ UNCHANGED <<server, env, store, runVars, guardVars, others, rcEnabled, pureVars>>

\* 2 - current Webflow state: await getAllItemsFromWebflow(...) settles
RC_getAllItemsFromWebflow ==
  /\ \E i \in RcSlots, outcome \in getAllItemsFromWebflowOutcomes :
       /\ rcRuns[i].pc = "items"
       /\ IF outcome = "ok"
            THEN /\ rcRuns' = [rcRuns EXCEPT ![i].pc = "sync"]
                 /\ rcStats' = rcStats
            ELSE RC_settle(i, runSyncJobOnThrow("items"))
  /\ UNCHANGED <<server, env, store, runVars, guardVars, others, rcEnabled, pureVars>>

\* 3 - diff + push: await syncWithWebflow(...) settles
RC_syncWithWebflow ==
  /\ \E i \in RcSlots, outcome \in syncWithWebflowOutcomes :
       /\ rcRuns[i].pc = "sync"
       /\ IF outcome = "ok"
            THEN RC_settle(i, "returned")
            ELSE RC_settle(i, runSyncJobOnThrow("sync"))
  /\ UNCHANGED <<server, env, store, runVars, guardVars, others, rcEnabled, pureVars>>

RentCafeNext ==
  \/ RC_cron
  \/ GetSyncRentcafe
  \/ RC_getApartmentAvailability
  \/ RC_getAllItemsFromWebflow
  \/ RC_syncWithWebflow

SpecRentCafe == InitRentCafe /\ [][RentCafeNext]_vars

(***************************************************************************)
(* One call of a Webflow helper on its own: updateWebflowItem, and          *)
(* fetchAllWebflowData of either file over a collection of 0 .. MaxItems    *)
(* items.  call.sent counts the requests of the call, call.log holds the    *)
(* responses to the PATCH requests.                                         *)
(***************************************************************************)
\* The collection of n items, by id.
CollectionOfSize(n) == [k \in 1 .. n |-> k]

InitCalls ==
  /\ server = "unified"
  /\ env = "set"
  /\ store = CHOOSE st \in InitialStores("unified") : TRUE
  /\ run = Idle
  /\ result = "none"
  /\ hist = NoRequests
  /\ onSiteRunning = FALSE
  /\ appFolioRunning = FALSE
  /\ guarded = "none"
  /\ trigger = "none"
  /\ others = 0
  /\ stats = NoStats
  /\ rcEnabled = FALSE
  /\ rcRuns = [i \in RcSlots |-> RcIdle]
  /\ rcStats = NoRcStats
  /\ call = NoCall
  /\ framer = NoFramer

\* updateWebflowItem(id, collectionId, fieldData, token) is called: retry = 3,
\* and the PATCH is sent.
CallUpdateWebflowItem ==
  /\ call.outcome \notin {"pending", "waiting"}
  /\ \E variant \in {"onsite", "appfolio"} :
       call' = [NoCall EXCEPT !.fn = "patch", !.variant = variant,
                              !.retry = RetryBudget, !.sent = 1, !.outcome = "pending"]
  /\ UNCHANGED <<server, env, store, runVars, guardVars, others, rcVars, framer>>

\* The values r.headers.get('Retry-After') has: null without the header, the
\* text of a number of seconds, or the text of an HTTP date.
RetryAfterHeaders == {Null, Str("0"), Str("2"), Str("Wed, 04 Nov 2026 08:00:02 GMT")}

\* const wait = Number(r.headers.get('Retry-After') || 1): Number of a text
\* that is no number is NaN.
retryWait(header) ==
  LET Number(v) ==
        CASE v = Str("0") -> 0 [] v = Str("2") -> 2 [] v = Num(1) -> 1 [] OTHER -> NaN
  IN  Number(IF header \in {Null, Str("")} THEN Num(1) ELSE header)

\* setTimeout(d, wait * 1000): the seconds before the timer may fire; a delay
\* of NaN is taken as the shortest one.
timerSeconds(wait) == IF wait = NaN THEN 0 ELSE wait

\* The response to the PATCH of the call.  On a 429 with retries left the
\* call waits on the timer before it sends the PATCH again.
UpdateWebflowItemResponds ==
  /\ call.fn = "patch"
  /\ call.outcome = "pending"
  /\ \E resp \in {"ok", "429", "error"}, header \in RetryAfterHeaders :
       LET n == updateWebflowItemResponse(call.retry, resp)
       IN  /\ resp # "429" => header = Null
           /\ call' = [call EXCEPT
                      !.log = Append(@, resp),
                      !.retry = n.retry,
                      !.header = header,
                      !.wait = timerSeconds(retryWait(header)),
                      !.elapsed = 0,
                      !.retried = FALSE,
                      !.outcome = CASE n.status = "return" -> "returned"
                                    [] n.status = "resend" -> "waiting"
                                    [] OTHER -> "threw"]
  /\ UNCHANGED <<server, env, store, runVars, guardVars, others, rcVars, framer>>

\* fetchAllWebflowData(collectionId, token) is called: retry = 3, items = [],
\* and the page at offset 0 is requested.
CallFetchAllWebflowData ==
  /\ call.outcome \notin {"pending", "waiting"}
  /\ \E variant \in {"onsite", "appfolio"}, n \in 0 .. MaxItems :
       call' = [NoCall EXCEPT !.fn = "get", !.variant = variant,
                              !.coll = CollectionOfSize(n),
                              !.retry = RetryBudget, !.sent = 1, !.outcome = "pending"]
  /\ UNCHANGED <<server, env, store, runVars, guardVars, others, rcVars, framer>>

\* The response to the page request of the call.
FetchAllWebflowDataResponds ==
  /\ call.fn = "get"
  /\ call.outcome = "pending"
  /\ \E resp \in {"ok", "429", "error"}, header \in RetryAfterHeaders :
       LET n == IF call.variant = "onsite"
                  THEN OS_pageResponse(call.offset, call.retry, call.items, resp, call.coll)
                  ELSE AF_pageResponse(call.offset, call.retry, call.items, resp, call.coll)
       IN  /\ resp # "429" => header = Null
           /\ call' = [call EXCEPT
                      !.log = Append(@, resp),
                      !.offset = n.offset, !.retry = n.retry, !.items = n.items,
                      !.header = header,
                      !.wait = timerSeconds(retryWait(header)),
                      !.elapsed = 0,
                      !.retried = FALSE,
                      !.sent = IF n.status = "next" /\ resp = "ok" THEN @ + 1 ELSE @,
                      !.outcome = CASE n.status = "return" -> "returned"
                                    [] n.status = "next" /\ resp = "ok" -> "pending"
                                    [] n.status = "next" -> "waiting"
                                    [] OTHER -> "threw"]
  /\ UNCHANGED <<server, env, store, runVars, guardVars, others, rcVars, framer>>

\* A second passes while the call waits on its timer.
Tick ==
  /\ call.outcome = "waiting"
  /\ call.elapsed < MaxWait
  /\ call' = [call EXCEPT !.elapsed = @ + 1]
  /\ UNCHANGED <<server, env, store, runVars, guardVars, others, rcVars, framer>>

\* The timer of the wait fires, not before its delay has passed, and the
\* call sends its request again.
RetryTimerFires ==
  /\ call.outcome = "waiting"
  /\ call.elapsed >= call.wait
  /\ call' = [call EXCEPT !.sent = @ + 1, !.retried = TRUE, !.outcome = "pending"]
  /\ UNCHANGED <<server, env, store, runVars, guardVars, others, rcVars, framer>>

\* item.fieldData as the store returns it for unit 101: written by an earlier
\* run, with older values, never written, without the date field, or with
\* an empty date.
StoredFieldData ==
  { OS_Synced("101"), Listed("101"), Blank("101"),
    [ k \in DOMAIN Blank("101") \ {"available-date"} |-> Blank("101")[k] ],
    [ Blank("101") EXCEPT !["available-date"] = Str("") ] }

\* logChanges(item.fieldData, newData) is called by updateUnits for a unit
\* with a date and for a unit without one.
CallLogChanges ==
  /\ call.outcome \notin {"pending", "waiting"}
  /\ \E oldData \in StoredFieldData, i \in DOMAIN allUnits :
       call' = [NoCall EXCEPT !.fn = "logChanges", !.oldData = oldData,
                              !.newData = OS_unitNewData(allUnits[i]),
                              !.changes = logChanges(oldData, OS_unitNewData(allUnits[i])),
                              !.outcome = "returned"]
  /\ UNCHANGED <<server, env, store, runVars, guardVars, others, rcVars, framer>>

\* updateUnits looks up the item of a unit: items.find(i =>
\* i.fieldData.slug === slug) with slug = generateSlug(num), in a collection
\* of one item whose slug is in lower case, in upper case, or another one.
CallFind ==
  /\ call.outcome \notin {"pending", "waiting"}
  /\ \E stored \in {"a-3", "A-3", "101"}, i \in DOMAIN allUnits :
       LET items == << Item(ApartmentItemId(1, 1), Blank(stored)) >>
       IN  call' = [NoCall EXCEPT !.fn = "find", !.items = items,
                                  !.slug = generateSlug(allUnits[i].num),
                                  !.found = FindItem(items, generateSlug(allUnits[i].num)),
                                  !.outcome = "returned"]
  /\ UNCHANGED <<server, env, store, runVars, guardVars, others, rcVars, framer>>

CallsNext ==
  \/ CallFind
  \/ Tick
  \/ RetryTimerFires
  \/ CallLogChanges
  \/ CallUpdateWebflowItem
  \/ UpdateWebflowItemResponds
  \/ CallFetchAllWebflowData
  \/ FetchAllWebflowDataResponds

SpecCalls == InitCalls /\ [][CallsNext]_vars

\* The store answers every request, fetch rejecting counted as an answer, and
\* timers fire.
SpecCallsFair ==
  /\ SpecCalls
  /\ WF_vars(FetchAllWebflowDataResponds)
  /\ WF_vars(UpdateWebflowItemResponds)
  /\ WF_vars(Tick)
  /\ WF_vars(RetryTimerFires)

(***************************************************************************)
(* rentcafe/framerSync.js: normalizeRentCafeUnits and applyFeaturedFlags,  *)
(* as the units route calls them on the availability response of a          *)
(* property.  Rents are whole dollars, dates are the texts of the feed.     *)
(***************************************************************************)
\* One entry of raw.apartmentAvailabilities.
RawUnit(name, fp, status, min, date, max) ==
  [apartmentName |-> name, floorplanName |-> fp, unitStatus |-> status,
   minimumRent |-> min, availableDate |-> date, maximumRent |-> max]

\* The entries a response is made of: units of floorplan S1 that tie on the
\* rent, on the rent and the date, or have no rent or no date; one that is
\* not available; one of floorplan A2, available by its rent alone; one
\* whose unit number is blank; one without a floorplan, its date not in the
\* MM/DD/YYYY form; unit 101 a second time, with another maximum rent; one
\* whose date has a month and a day that do not exist; and a rented one that
\* still lists a rent.
RawUnits ==
  { RawUnit("101", "S1", "Vacant Unrented Ready", Num(1200), "03/05/2025", Num(1300)),
    RawUnit("102", "S1", "Vacant Unrented Ready", Num(1200), "03/05/2025", Num(1300)),
    RawUnit("100", "S1", "Vacant Unrented", Num(1200), "", Num(1300)),
    RawUnit("108", "S1", "Vacant Rented", Num(1400), "", Num(1400)),
    RawUnit("103", "S1", "Vacant Unrented Ready", Null, "12/01/2024", Null),
    RawUnit("106", "S1", "Vacant Unrented Ready", Num(1200), "12/01/2024", Num(1250)),
    RawUnit("104", "S1", "Occupied No Notice", Num(0), "", Num(0)),
    RawUnit("PH1", "A2", "Occupied No Notice", Num(900), "01/15/2025", Num(950)),
    RawUnit(" ", "S1", "Vacant Unrented Ready", Num(700), "", Num(700)),
    RawUnit("105", " ", "Vacant Unrented Ready", Num(800), "2025-03-05", Num(800)),
    RawUnit("107", "S1", "Vacant Unrented Ready", Num(1100), "13/45/2025", Num(1100)),
    RawUnit("101 ", "S1", "Vacant Unrented Ready", Num(1200), "03/05/2025", Num(1500)) }

\* String.prototype.trim
trim(s) == CASE s = " " -> "" [] s = "101 " -> "101" [] OTHER -> s

\* isAvailableStatus(status)
isAvailableStatus(status) ==
  LET s == toLowerCase(status)
      includes(sub) ==
        CASE s = "vacant unrented ready" ->
               sub \in {"vacant unrented", "vacant", "unrented", "rented"}
          [] s = "occupied no notice" -> sub \in {"occupied", "notice"}
          [] s = "vacant unrented" ->
               sub \in {"vacant unrented", "vacant", "unrented", "rented"}
          [] s = "vacant rented" -> sub \in {"vacant rented", "vacant", "rented"}
          [] OTHER -> FALSE
  IN  /\ s # ""
      /\ \/ includes("vacant unrented")
         \/ includes("notice unrented")
         \/ (includes("vacant") /\ ~includes("rented"))
         \/ s = "available"

\* toISOString of an invalid Date throws.
RangeError == "RangeError: Invalid time value"

\* parseUsDateToISO(mdy): 'MM/DD/YYYY' to the ISO text of that day, '' for a
\* text without three parts; three parts that name no day make an invalid
\* Date.
parseUsDateToISO(mdy) ==
  CASE mdy = "03/05/2025" -> "2025-03-05T00:00:00.000Z"
    [] mdy = "13/45/2025" -> RangeError
    [] mdy = "12/01/2024" -> "2024-12-01T00:00:00.000Z"
    [] mdy = "01/15/2025" -> "2025-01-15T00:00:00.000Z"
    [] OTHER -> ""

\* Date.parse of a text, in days since 1970-01-01; NaN for a text that is no
\* date.
DateParse(iso) ==
  CASE iso = "2024-12-01T00:00:00.000Z" -> 20058
    [] iso = "2025-01-15T00:00:00.000Z" -> 20103
    [] iso = "2025-03-05T00:00:00.000Z" -> 20152
    [] iso = "1970-01-01T00:00:00.000Z" -> 0
    [] OTHER -> NaN

\* Infinity: above every rent and every day.
Infinity == 1000000000

\* normalizeRentCafeUnits without its filter: one unit per entry.
normalizeRentCafeUnits_keepAll(list) ==
  [i \in DOMAIN list |->
     [slug |-> toLowerCase(trim(list[i].apartmentName)),
      unitType |-> trim(list[i].floorplanName),
      available |-> TRUE, availableDate |-> "",
      minRent |-> Null, maxRent |-> Null]]

\* normalizeRentCafeUnits(property, raw): one unit per entry, the entries
\* without a unit number dropped.  updatedAt, the time of the call, is left out.
normalizeRentCafeUnits(list) ==
  LET unit(u) ==
        [slug |-> toLowerCase(trim(u.apartmentName)),
         unitType |-> trim(u.floorplanName),
         available |-> \/ isAvailableStatus(u.unitStatus)
                       \/ (u.minimumRent.t = "number" /\ u.minimumRent.n > 0),
         availableDate |-> IF u.availableDate # ""
                             THEN parseUsDateToISO(u.availableDate) ELSE "",
         minRent |-> IF u.minimumRent.t = "number" THEN u.minimumRent ELSE Null,
         maxRent |-> IF u.maximumRent.t = "number" THEN u.maximumRent ELSE Null]
      hasSlug(u) == u.slug # ""
  IN  SelectSeq([i \in DOMAIN list |-> unit(list[i])], hasSlug)

\* String.prototype.localeCompare on the slugs of the model: -1, 0 or 1.
localeCompare(a, b) ==
  LET order == <<"100", "101", "102", "103", "104", "105", "106", "107", "108", "ph1">>
      at(x) == CHOOSE i \in DOMAIN order : order[i] = x
  IN  IF at(a) < at(b) THEN -1 ELSE IF at(a) > at(b) THEN 1 ELSE 0

\* A comparator that does not look at the dates.
compare_noDate(a, b) ==
  LET ar == IF a.minRent.t = "number" THEN a.minRent.n ELSE Infinity
      br == IF b.minRent.t = "number" THEN b.minRent.n ELSE Infinity
  IN  IF ar # br THEN ar - br ELSE localeCompare(a.slug, b.slug)

\* The comparator of avail.sort: negative when a sorts before b.
compare(a, b) ==
  LET ar == IF a.minRent.t = "number" THEN a.minRent.n ELSE Infinity
      br == IF b.minRent.t = "number" THEN b.minRent.n ELSE Infinity
      ad == IF a.availableDate # "" THEN DateParse(a.availableDate) ELSE Infinity
      bd == IF b.availableDate # "" THEN DateParse(b.availableDate) ELSE Infinity
  IN  IF ar # br THEN ar - br
      ELSE IF ad # bd THEN ad - bd
      ELSE localeCompare(a.slug, b.slug)

\* Array.prototype.sort with that comparator, on the indexes arr of units.
\* The sort is stable: an element goes before the first one it sorts before.
RECURSIVE sort(_, _)
sort(units, arr) ==
  IF arr = <<>> THEN <<>>
  ELSE LET front == sort(units, SubSeq(arr, 1, Len(arr) - 1))
           x == arr[Len(arr)]
           later == { i \in DOMAIN front : compare(units[x], units[front[i]]) < 0 }
           k == IF later = {} THEN Len(front) + 1 ELSE Min(later)
       IN  SubSeq(front, 1, k - 1) \o <<x>> \o SubSeq(front, k, Len(front))

\* A filter that keeps every unit of the group.
availOf_all(units, arr) == arr

\* arr.filter(x => x.available), on the indexes arr of units
availOf(units, arr) ==
  LET available(i) == units[i].available IN SelectSeq(arr, available)

\* applyFeaturedFlags(units): the indexes of the units it sets _featured on.
featuredIn(units) ==
  LET ofType(t) ==
        LET isT(i) == units[i].unitType = t
        IN  SelectSeq([i \in DOMAIN units |-> i], isT)
      byType == { units[i].unitType : i \in DOMAIN units } \ {""}
  IN  { sort(units, availOf(units, ofType(t)))[1] :
          t \in { g \in byType : availOf(units, ofType(g)) # <<>> } }

\* applyFeaturedFlags(units): every unit gets _featured, true on the first
\* of the sorted available units of each unitType.
applyFeaturedFlags(units) ==
  [ i \in DOMAIN units |->
      [ k \in DOMAIN units[i] \cup {"_featured"} |->
          IF k = "_featured" THEN i \in featuredIn(units) ELSE units[i][k] ] ]

\* The entries of a response with entries k and k + 1 exchanged.
Swap(list, k) ==
  [ i \in DOMAIN list |->
      IF i = k THEN list[k + 1] ELSE IF i = k + 1 THEN list[k] ELSE list[i] ]

\* The values of FRAMER_SYNC_TOKEN: '' when the variable is not set.
FramerSyncTokens == {"", "s3cret"}

\* The values of the Authorization header of a request: '' when it is absent.
AuthorizationHeaders ==
  {"", "Bearer s3cret", "Bearer other", "Bearer ", "s3cret", "bearer s3cret"}

\* auth.startsWith('Bearer ') ? auth.slice(7) : ''
bearerToken(auth) ==
  CASE auth = "Bearer s3cret" -> "s3cret"
    [] auth = "Bearer other" -> "other"
    [] OTHER -> ""

\* requireBearer without the test that a token is configured.
requireBearer_anyConfig(configured, auth) ==
  IF bearerToken(auth) # configured THEN 401 ELSE 0

\* requireBearer(req, res, next): the status it answers with, 0 when it
\* calls next().
requireBearer(configured, auth) ==
  IF configured = "" \/ bearerToken(auth) # configured THEN 401 ELSE 0

\* A request to a route of the router has arrived; nothing has run yet.
InitFramer ==
  /\ server = "unified"
  /\ env = "set"
  /\ store = CHOOSE st \in InitialStores("unified") : TRUE
  /\ run = Idle
  /\ result = "none"
  /\ hist = NoRequests
  /\ onSiteRunning = FALSE
  /\ appFolioRunning = FALSE
  /\ guarded = "none"
  /\ trigger = "none"
  /\ others = 0
  /\ stats = NoStats
  /\ rcEnabled = FALSE
  /\ rcRuns = [i \in RcSlots |-> RcIdle]
  /\ rcStats = NoRcStats
  /\ call = NoCall
  /\ \E configured \in FramerSyncTokens, auth \in AuthorizationHeaders :
       framer = [NoFramer EXCEPT !.pc = "received", !.token = configured, !.auth = auth]

\* router.get(path, requireBearer, handler): the handler runs when
\* requireBearer calls next().
FR_requireBearer ==
  /\ framer.pc = "received"
  /\ LET status == requireBearer(framer.token, framer.auth)
     IN  framer' = [framer EXCEPT !.pc = IF status = 0 THEN "authorized" ELSE "responded",
                                  !.status = status]
  /\ UNCHANGED <<server, env, store, runVars, guardVars, others, rcVars, call>>

\* const raw = await fetchUnitsForProperty(property), the same in both
\* handlers: the request either fails, and the handler answers 500, or
\* brings a response.  The model follows two responses that list the same
\* entries: framer.raw, and framer.swapped, which has two neighbours
\* exchanged (every reordering is a chain of such exchanges).
FR_fetchUnitsForProperty ==
  /\ framer.pc = "authorized"
  /\ \/ framer' = [framer EXCEPT !.pc = "responded", !.status = 500,
                                 !.fetches = framer.fetches + 1]
     \/ \E n \in 0 .. MaxUnits :
          \E raw \in [1 .. n -> RawUnits] :
            \E swapped \in {raw} \cup { Swap(raw, k) : k \in 1 .. (n - 1) } :
              framer' = [framer EXCEPT !.pc = "fetched", !.raw = raw,
                                       !.swapped = swapped,
                                       !.fetches = framer.fetches + 1]
  /\ UNCHANGED <<server, env, store, runVars, guardVars, others, rcVars, call>>

\* const units = normalizeRentCafeUnits(property, raw): when the date parser
\* throws for an entry, the error leaves normalizeRentCafeUnits and the
\* route answers 500.
FR_normalizeRentCafeUnits ==
  /\ framer.pc = "fetched"
  /\ IF \E i \in DOMAIN framer.raw :
          /\ framer.raw[i].availableDate # ""
          /\ parseUsDateToISO(framer.raw[i].availableDate) = RangeError
       THEN framer' = [framer EXCEPT !.pc = "threw"]
       ELSE framer' = [framer EXCEPT !.pc = "normalized",
                                     !.units = normalizeRentCafeUnits(framer.raw),
                                     !.other = normalizeRentCafeUnits(framer.swapped)]
  /\ UNCHANGED <<server, env, store, runVars, guardVars, others, rcVars, call>>

\* applyFeaturedFlags(units)
FR_applyFeaturedFlags ==
  /\ framer.pc = "normalized"
  /\ framer' = [framer EXCEPT !.pc = "flagged",
                              !.units = applyFeaturedFlags(framer.units),
                              !.other = applyFeaturedFlags(framer.other)]
  /\ UNCHANGED <<server, env, store, runVars, guardVars, others, rcVars, call>>

\* new Date().toISOString() in normalizeRentCafeUnits: the updatedAt of every
\* unit of a request.
nowIso == "2025-01-15T00:00:00.000Z"

\* The values of req.query.since: '' when the query has none.
SinceQueries ==
  {"", "1970-01-01T00:00:00.000Z", "2024-12-01T00:00:00.000Z",
   "2025-01-15T00:00:00.000Z", "2025-03-05T00:00:00.000Z", "yesterday"}

\* The values of req.params.slug.
SlugParams == {"101", "PH1", "999"}

\* buildFramerItems that also keeps the items updated at since.
buildFramerItems_atOrAfter(units, sinceIso) ==
  LET items == [i \in DOMAIN units |->
                  [slug |-> units[i].slug, fields |-> <<>>, updatedAt |-> nowIso]]
      after(i) == DateParse(i.updatedAt) >= DateParse(sinceIso)
  IN  IF sinceIso # "" THEN SelectSeq(items, after) ELSE items

\* buildFramerItems(property, units, sinceIso).  externalId, the property
\* and the slug joined, is left out.
buildFramerItems(units, sinceIso) ==
  LET since == IF sinceIso # "" THEN DateParse(sinceIso) ELSE 0
      YES_NO(b) == IF b THEN "YES" ELSE "NO"
      items ==
        [i \in DOMAIN units |->
           [slug |-> units[i].slug,
            fields |->
              [Available |-> YES_NO(units[i].available),
               AvailableDate |-> units[i].availableDate,
               MinimumRent |-> IF units[i].minRent.t = "number"
                                 THEN units[i].minRent ELSE Null,
               MaximumRent |-> IF units[i].maxRent.t = "number"
                                 THEN units[i].maxRent ELSE Null,
               Featured |-> YES_NO(units[i]._featured)],
            updatedAt |-> nowIso]]
      after(i) == DateParse(i.updatedAt) > since
  IN  IF since \notin {0, NaN} THEN SelectSeq(items, after) ELSE items

\* GET /framer/cms-sync/:property/units, after applyFeaturedFlags:
\* buildFramerItems(property, units, since) and res.json.
FR_units ==
  /\ framer.pc = "flagged"
  /\ \E since \in SinceQueries :
       framer' = [framer EXCEPT !.pc = "responded", !.route = "units",
                                !.since = since, !.status = 200,
                                !.items = buildFramerItems(framer.units, since)]
  /\ UNCHANGED <<server, env, store, runVars, guardVars, others, rcVars, call>>

\* GET /framer/cms-sync/:property/unit/:slug, after applyFeaturedFlags:
\* units.find, 404 when there is none, else the item of the unit found.
FR_unit ==
  /\ framer.pc = "flagged"
  /\ \E param \in SlugParams :
       LET slug == toLowerCase(param)
           found == { i \in DOMAIN framer.units :
                        toLowerCase(framer.units[i].slug) = slug }
           u == framer.units[CHOOSE i \in found : \A j \in found : i <= j]
       IN  framer' = [framer EXCEPT
                        !.pc = "responded", !.route = "unit", !.slug = slug,
                        !.status = IF found = {} THEN 404 ELSE 200,
                        !.items = IF found = {} THEN <<>>
                                  ELSE buildFramerItems(<<u>>, "")]
  /\ UNCHANGED <<server, env, store, runVars, guardVars, others, rcVars, call>>

FramerNext ==
  \/ FR_requireBearer
  \/ FR_fetchUnitsForProperty
  \/ FR_normalizeRentCafeUnits
  \/ FR_applyFeaturedFlags
  \/ FR_units
  \/ FR_unit

SpecFramer == InitFramer /\ [][FramerNext]_vars

(***************************************************************************)
(* Properties.                                                             *)
(***************************************************************************)
\* Executions of main in flight in the process.
InFlight == (IF run.pc # "idle" THEN 1 ELSE 0) + others

\* The tracked execution of main has settled.
Settled == run.pc = "idle" /\ result # "none"

\* The collections a run reads for property p.
CollectionsOf(p) ==
  IF server = "unified"
    THEN {apartmentsCollectionId(p)} \cup
         (IF HasFloorplans(p) THEN {floorplansCollectionId(p)} ELSE {})
    ELSE {COLLECTION_ID}

\* C1: at most one execution of the On-Site main (on the AppFolio server: of
\* the AppFolio main) is in flight at any moment, for every interleaving of
\* cron ticks and manual requests.
C1_AtMostOneInFlight == InFlight <= 1

\* C2: the number of job executions safeOnSiteRun started equals the number
\* of triggers that found the run flag clear (a skipped trigger starts none).
C2_StartedEqualsFlagClear == stats.started = stats.admitted

\* C3: two executions of the RentCafe runSyncJob never overlap.
C3_RentCafeNeverOverlaps == Cardinality(rcInFlight) <= 1

\* C4: when a PATCH of a property failed, every item of that property whose
\* fields differ still got at least one PATCH attempt in the run.
C4_FailedPatchKeepsSiblings ==
  \A p \in Props : hist[p].failed # {} => hist[p].needed \subseteq hist[p].attempted

\* C5: when a run has ended, publish was requested exactly once for every
\* property whose source fetch and store load succeeded, whether or not a
\* PATCH failed.
C5_PublishExactlyOnce ==
  Settled =>
    \A p \in Props :
      (hist[p].fetched = "ok" /\ CollectionsOf(p) \subseteq hist[p].loaded)
        => hist[p].publishes = 1

\* C6: within a property's run a PATCH is issued only with the snapshot of
\* its collection loaded and before the property's publish, and the publish
\* is requested only when every item whose fields differ had its PATCH
\* attempt and no PATCH is awaited.
C6_LoadWritePublishOrder ==
  \A p \in Props :
    /\ hist[p].attempted # {} => hist[p].loaded # {}
    /\ hist[p].publishes > 0 => hist[p].needed \subseteq hist[p].attempted
    /\ hist[p].publishes <= 1
    /\ (run.pc = "patch" /\ p = (IF server = "unified" THEN OS_prop(run) ELSE AppFolioProp))
         => run.coll \in hist[p].loaded /\ hist[p].publishes = 0

\* C6, its case: a run sent two PATCHes for a property and then its publish.
C6_Witness ==
  \E p \in Props : Cardinality(hist[p].attempted) >= 2 /\ hist[p].publishes = 1

\* C7: when an On-Site run has ended, the store read of every fetched
\* property was requested, whatever failed for an earlier property.
C7_BatchRunsEveryFetchedProperty ==
  (Settled /\ server = "unified") =>
    \A p \in Props :
      hist[p].fetched = "ok" => apartmentsCollectionId(p) \in hist[p].read

\* C8: when an On-Site run has ended and the fetch or parse of a property
\* failed, that property got no store read, no PATCH and no publish, and the
\* store read of every other fetched property was requested.
C8_FetchFailureIsolated ==
  (Settled /\ server = "unified") =>
    \A p \in Props :
      hist[p].fetched = "failed" =>
        /\ hist[p].read = {} /\ hist[p].attempted = {} /\ hist[p].publishes = 0
        /\ \A q \in Props \ {p} :
             hist[q].fetched = "ok" => apartmentsCollectionId(q) \in hist[q].read

\* C9: the promise of onSiteSync main and of appfolioSync main never rejects:
\* after a failure it resolves.
C9_MainNeverRejects == result # "rejected"

\* C9, its case: a PATCH of a run failed, the error reached main, and main
\* has settled.
C9_Witness == Settled /\ result = "failed" /\ \E p \in Props : hist[p].failed # {}

\* C10: the promise of the RentCafe runSyncJob never rejects.
C10_RunSyncJobNeverRejects == rcStats.rejected = 0

\* C11: updateWebflowItem sends at most RetryBudget + 1 = 4 PATCH requests
\* for one item, sends a request again only after a 429 response, uses one
\* retry for each request sent again (the one it waits to send included),
\* and has returned or thrown once the last request it may send is answered.
C11_PatchRetriesBounded ==
  call.fn = "patch" =>
    /\ call.sent <= RetryBudget + 1
    /\ call.sent + (IF call.outcome = "waiting" THEN 1 ELSE 0)
         = (RetryBudget - call.retry) + 1
    /\ Len(call.log) = IF call.outcome = "pending" THEN call.sent - 1 ELSE call.sent
    /\ \A i \in 1 .. (call.sent - 1) : call.log[i] = "429"
    /\ call.outcome = "waiting" => call.log[call.sent] = "429"
    /\ call.outcome \in {"pending", "waiting", "returned", "threw"}
    /\ Len(call.log) = RetryBudget + 1 => call.outcome \in {"returned", "threw"}

\* C11, its case: three 429 responses were retried and the fourth request
\* was answered 429 too: the call threw after four requests.
C11_Witness ==
  /\ call.fn = "patch"
  /\ call.log = <<"429", "429", "429", "429">>
  /\ call.outcome = "threw"

\* C12: a PATCH answered 429 and then with success returns success, having
\* sent exactly two requests and used exactly one of its three retries.
C12_OneRetryThenSuccess ==
  (call.fn = "patch" /\ call.log = <<"429", "ok">>) =>
    /\ call.outcome = "returned"
    /\ call.sent = 2
    /\ call.retry = RetryBudget - 1

\* C12, its case: the call got a 429 and then a success, and has returned.
C12_Witness ==
  call.fn = "patch" /\ call.log = <<"429", "ok">> /\ call.outcome = "returned"

\* C13: fetchAllWebflowData of appfolioSync.js returns every item of the
\* collection exactly once, in the store's order, also when page requests
\* were answered 429 and retried.
C13_AppFolioReadComplete ==
  (call.fn = "get" /\ call.variant = "appfolio" /\ call.outcome = "returned")
    => call.items = call.coll

\* C14: fetchAllWebflowData of onSiteSync.js returns every item of the
\* collection exactly once, in the store's order, for every collection size
\* and also when page requests were answered 429 and the read was restarted.
C14_OnSiteReadComplete ==
  (call.fn = "get" /\ call.variant = "onsite" /\ call.outcome = "returned")
    => call.items = call.coll

\* C14, its case: a collection of exactly two full pages was read, a page
\* request was answered 429 on the way, and the read returned.
C14_Witness ==
  /\ call.fn = "get" /\ call.variant = "onsite" /\ call.outcome = "returned"
  /\ Len(call.coll) = 2 * PageLimit
  /\ call.retry < RetryBudget
  /\ call.items = call.coll

\* The ids of the items the store holds in collection c.
StoreIds(c) == { store[c][j].id : j \in DOMAIN store[c] }

\* C15: the sync jobs create and delete no store item: every collection
\* keeps the items it had, every PATCH is for the id of an item of the
\* property's collections, which the run's store load returned, and a source
\* record with no store item of its slug (id 0) causes no request.
C15_OnlyPatchesOfLoadedItems ==
  /\ \A c \in Collections :
       /\ Len(store[c]) = IF IsApartments(c) THEN Len(StoreSlugs) ELSE 1
       /\ \A j \in DOMAIN store[c] :
            store[c][j].id = IF IsApartments(c) THEN ApartmentItemId(PropOf(c), j)
                                                ELSE FloorplanItemId(PropOf(c), j)
  /\ \A p \in Props :
       /\ 0 \notin hist[p].attempted
       /\ hist[p].attempted \subseteq UNION { StoreIds(c) : c \in CollectionsOf(p) }
       /\ hist[p].attempted # {} => hist[p].loaded # {}

\* C15, its case: an On-Site run whose feed holds the unit "A 3", which has
\* no store item, sent its PATCHes and ended.
C15_Witness ==
  /\ server = "unified" /\ Settled /\ result = "done"
  /\ \E i \in DOMAIN allUnits :
       allUnits[i].num # "" /\ FindItem(store[apartmentsCollectionId(1)],
                                        generateSlug(allUnits[i].num)) = 0
  /\ \E p \in Props : hist[p].attempted # {}

\* C16: on the unified server, when the execution of main before this one
\* read property p and completed with every PATCH applied, this execution
\* sends no PATCH for p, and when it completes it has published p once.
C16_NextRunWritesNothing ==
  \A p \in Props :
    (server = "unified" /\ hist[p].afterClean) =>
      /\ hist[p].attempted = {}
      /\ (Settled /\ result = "done" /\ hist[p].fetched = "ok") => hist[p].publishes = 1

\* The units of the first response that are of unitType t and available.
AvailableOfType(t) ==
  { i \in DOMAIN framer.units :
      framer.units[i].unitType = t /\ framer.units[i].available }

\* C17: after applyFeaturedFlags every unitType that is not empty and has an
\* available unit has exactly one featured unit, an available one, and no
\* other unit is featured.
C17_OneFeaturedPerGroup ==
  framer.pc = "flagged" =>
    LET units == framer.units
        featured == { i \in DOMAIN units : units[i]["_featured"] }
    IN  /\ \A i \in featured : units[i].unitType # "" /\ units[i].available
        /\ \A i \in DOMAIN units :
             (units[i].unitType # "" /\ units[i].available) =>
               Cardinality(featured \cap AvailableOfType(units[i].unitType)) = 1

\* A group has an available unit and a unit that is not available, and an
\* available unit has no unitType.
C17_Witness ==
  /\ framer.pc = "flagged"
  /\ AvailableOfType("S1") # {}
  /\ \E i \in DOMAIN framer.units :
       framer.units[i].unitType = "S1" /\ ~framer.units[i].available
  /\ \E i \in DOMAIN framer.units :
       framer.units[i].unitType = "" /\ framer.units[i].available

\* C18: no available unit of its unitType is before the featured unit, where
\* a unit is before another when its minRent is lower (none is the highest),
\* then when its availableDate is earlier (none is the latest), then when its
\* slug is lower.
C18_FeaturedIsMinimum ==
  LET rent(u) == IF u.minRent = Null THEN Infinity ELSE u.minRent.n
      date(u) == IF u.availableDate = "" THEN Infinity ELSE DateParse(u.availableDate)
      before(a, b) ==
        \/ rent(a) < rent(b)
        \/ rent(a) = rent(b) /\ date(a) < date(b)
        \/ rent(a) = rent(b) /\ date(a) = date(b) /\ localeCompare(a.slug, b.slug) < 0
  IN  framer.pc = "flagged" =>
        \A i \in DOMAIN framer.units :
          framer.units[i]["_featured"] =>
            \A j \in AvailableOfType(framer.units[i].unitType) :
              ~before(framer.units[j], framer.units[i])

\* The featured unit was chosen among three available units of one group by
\* the rent, by the date, and by the slug.
C18_Witness ==
  /\ framer.pc = "flagged"
  /\ \E i, j, k \in AvailableOfType("S1") :
       /\ framer.units[i]["_featured"]
       /\ framer.units[j].minRent = framer.units[i].minRent
       /\ framer.units[j].availableDate # framer.units[i].availableDate
       /\ framer.units[k].minRent = framer.units[i].minRent
       /\ framer.units[k].availableDate = framer.units[i].availableDate
       /\ framer.units[k].slug # framer.units[i].slug

\* The featured units of a list of units.
FeaturedUnits(units) == { units[i] : i \in { j \in DOMAIN units : units[j]["_featured"] } }

\* C19: two responses that list the same entries in two orders give the same
\* featured units.
C19_OrderIndependent ==
  framer.pc = "flagged" => FeaturedUnits(framer.units) = FeaturedUnits(framer.other)

\* C20: the units normalizeRentCafeUnits returns have pairwise distinct slugs.
C20_SlugsDistinct ==
  framer.pc \in {"normalized", "flagged"} =>
    \A i, j \in DOMAIN framer.units :
      i # j => framer.units[i].slug # framer.units[j].slug

\* C21: a run sends no store request for a property whose credentials or
\* identifiers are missing from the environment.
C21_MissingCredentialNoRequest ==
  \A p \in Props :
    (IF server = "unified" THEN ~OS_configured(p) ELSE env = "missing") =>
      hist[p].read = {}

\* C22: the field data of a PATCH the On-Site run has sent holds exactly the
\* fields whose new value differs from the value of the item it loaded.
C22_PatchSendsOnlyChanges ==
  (server = "unified" /\ run.pc = "patch") =>
    LET p == OS_prop(run)
        item == run.items[OS_item(p, run.kind, run.items, run.u)]
        fieldData == OS_newData(p, run.kind, run.u)
    IN  DOMAIN fieldData = logChanges(item.fieldData, fieldData)

\* C23: while the On-Site run processes a collection, every item it has sent
\* a PATCH for is matched by a source record with a field whose new value
\* differs from the loaded one, and when the processor has ended every
\* matched item with such a field has had its PATCH.
C23_PatchIffFieldDiffers ==
  (server = "unified" /\ run.pc \in {"patch", "publish"}) =>
    LET p == OS_prop(run)
        items == run.items
        records == DOMAIN OS_records(p, run.kind)
        matched(i) == OS_item(p, run.kind, items, i) # 0
        differs(i) ==
          \E k \in DOMAIN OS_newData(p, run.kind, i) :
            Get(items[OS_item(p, run.kind, items, i)].fieldData, k)
              # OS_newData(p, run.kind, i)[k]
        loaded == { items[j].id : j \in DOMAIN items }
    IN  /\ \A id \in hist[p].attempted \cap loaded :
             \E i \in records :
               matched(i) /\ OS_itemId(p, run.kind, items, i) = id /\ differs(i)
        /\ run.pc = "publish" =>
             \A i \in records :
               (matched(i) /\ differs(i)) =>
                 OS_itemId(p, run.kind, items, i) \in hist[p].attempted

\* The processor of the units has ended: one item got a PATCH, another item
\* of the collection is matched by a unit and got none.
C23_Witness ==
  /\ server = "unified" /\ run.pc = "publish" /\ run.kind = "units"
  /\ \E i, j \in DOMAIN OS_records(OS_prop(run), "units") :
       /\ OS_itemId(OS_prop(run), "units", run.items, i) \in hist[OS_prop(run)].attempted
       /\ OS_item(OS_prop(run), "units", run.items, j) # 0
       /\ OS_itemId(OS_prop(run), "units", run.items, j) \notin hist[OS_prop(run)].attempted

\* C24: when the stored available-date and the new one are both falsy
\* (absent, null or the empty string), logChanges does not report the field.
C24_FalsyDatesAreNoChange ==
  LET falsy(v) == v \in {Undefined, Null, Str("")}
  IN  ( /\ call.fn = "logChanges"
        /\ falsy(Get(call.oldData, "available-date"))
        /\ falsy(call.newData["available-date"]) )
        => "available-date" \notin call.changes

\* C25: a retry is sent only when the seconds the Retry-After header of the
\* 429 gives have passed since that response, 1 second when there was no
\* header.  The HTTP date of the model lies 2 seconds after the response.
C25_RetryWaitsRetryAfter ==
  LET seconds(header) ==
        CASE header = Null -> 1
          [] header = Str("0") -> 0
          [] OTHER -> 2
  IN  call.retried => call.elapsed >= seconds(call.header)

\* C26: when the publish of a property failed, it was requested once, the
\* run has ended with no request in flight, and every item of the property
\* the run sent a PATCH for still holds the data of a PATCH.
C26_FailedPublishEndsWrites ==
  \A p \in Props :
    hist[p].publishFailed =>
      /\ hist[p].publishes = 1
      /\ run.pc = "idle" /\ result = "failed"
      /\ \A c \in CollectionsOf(p) :
           \A j \in DOMAIN store[c] :
             store[c][j].id \in hist[p].attempted =>
               IF server = "unified"
                 THEN LET kind == IF IsApartments(c) THEN "units" ELSE "floorplans"
                      IN  \E i \in DOMAIN OS_records(p, kind) :
                            /\ OS_itemId(p, kind, store[c], i) = store[c][j].id
                            /\ logChanges(store[c][j].fieldData, OS_newData(p, kind, i)) = {}
                 ELSE logChanges(store[c][j].fieldData, AF_newData(store[c][j])) = {}

\* The publish of a property failed after the run had sent a PATCH for it.
C26_Witness ==
  \E p \in Props : hist[p].publishFailed /\ hist[p].attempted # {}

\* C27: a store item whose slug equals the slug of the unit when letter case
\* is ignored is found for the unit.
C27_JoinIgnoresCase ==
  call.fn = "find" =>
    \A j \in DOMAIN call.items :
      toLowerCase(call.items[j].fieldData["slug"].s) = toLowerCase(call.slug)
        => call.found # 0

\* C28: every rent of the field data of a PATCH the On-Site run has sent is
\* a whole amount (a multiple of 100 cents) or null.
C28_RentsRoundedUp ==
  (server = "unified" /\ run.pc = "patch") =>
    LET fieldData == OS_newData(OS_prop(run), run.kind, run.u)
        rents == DOMAIN fieldData \cap
                   {"effective-rent-amount", "original-rent-amount",
                    "minimum-rent", "maximum-rent"}
    IN  \A k \in rents :
          fieldData[k] = Null \/ (fieldData[k].t = "number" /\ fieldData[k].n % 100 = 0)

\* C29: normalizeRentCafeUnits never throws.
C29_NormalizeNeverThrows == framer.pc # "threw"

\* C30: the units normalizeRentCafeUnits returns are, in the order of the
\* response, one per entry whose unit number is not empty once trimmed, with
\* the trimmed, lowercased unit number as slug; no unit has an empty slug.
C30_NormalizeKeepsNamedUnits ==
  framer.pc = "normalized" =>
    LET named(u) == trim(u.apartmentName) # ""
        kept == SelectSeq(framer.raw, named)
    IN  /\ Len(framer.units) = Len(kept)
        /\ \A i \in DOMAIN kept :
             /\ framer.units[i].slug = toLowerCase(trim(kept[i].apartmentName))
             /\ framer.units[i].slug # ""
             /\ framer.units[i].maxRent = kept[i].maximumRent

\* A response of three entries, the second of them without a unit number,
\* the others with a unit number that trimming or lowercasing changes, has
\* been normalized.
C30_Witness ==
  /\ framer.pc = "normalized"
  /\ Len(framer.raw) = 3
  /\ framer.raw[1].apartmentName = "PH1"
  /\ trim(framer.raw[2].apartmentName) = ""
  /\ framer.raw[3].apartmentName = "101 "
  /\ Len(framer.units) = 2

\* C31: of the units normalizeRentCafeUnits returns, the one of an entry with
\* unitStatus 'Vacant Unrented' is available and the one of an entry with
\* unitStatus 'Vacant Rented' is not, whatever the entry's other fields.
C31_StatusDecidesAvailable ==
  framer.pc = "normalized" =>
    LET named(u) == trim(u.apartmentName) # ""
        kept == SelectSeq(framer.raw, named)
    IN  \A i \in DOMAIN kept :
          /\ kept[i].unitStatus = "Vacant Unrented" => framer.units[i].available
          /\ kept[i].unitStatus = "Vacant Rented" => ~framer.units[i].available

\* C40: a request that got past requireBearer, or for which a source fetch
\* was made, carries the configured token as its bearer token, and a token is
\* configured; every request handled without a configured token was answered
\* 401.
C40_FetchOnlyWithToken ==
  /\ (framer.pc \notin {"received", "responded"} \/ framer.fetches > 0) =>
       (framer.token # "" /\ bearerToken(framer.auth) = framer.token)
  /\ (framer.pc # "received" /\ framer.token = "") =>
       (framer.pc = "responded" /\ framer.status = 401 /\ framer.fetches = 0)

\* A request with the configured token has been served from a fetched
\* response.
C40_Witness ==
  /\ framer.fetches = 1
  /\ framer.pc = "fetched"
  /\ framer.auth = "Bearer s3cret"
  /\ Len(framer.raw) > 0

\* C32: the items the units route answers with are, for a request with a
\* since that is a date, the items of the units whose updatedAt is after
\* since, and all items for a request without since.
C32_SinceFiltersItems ==
  (framer.pc = "responded" /\ framer.route = "units") =>
    LET all == buildFramerItems(framer.units, "")
        since == DateParse(framer.since)
        kept == { i \in DOMAIN all : DateParse(all[i].updatedAt) > since }
    IN  /\ framer.since = "" => framer.items = all
        /\ (framer.since # "" /\ since # NaN) =>
             /\ Len(framer.items) = Cardinality(kept)
             /\ \A i \in DOMAIN framer.items : framer.items[i] \in { all[j] : j \in kept }
             /\ \A j \in kept : \E i \in DOMAIN framer.items : framer.items[i] = all[j]

\* The units route has answered a request whose since is the updatedAt of the
\* units, with no item for two units.
C32_Witness ==
  /\ framer.pc = "responded"
  /\ framer.route = "units"
  /\ framer.since = nowIso
  /\ Len(framer.units) = 2
  /\ framer.items = <<>>

\* C39: the item the unit route answers with has the fields of every item of
\* that slug the units route builds from the same units.
C39_UnitRouteMatchesUnitsRoute ==
  (framer.pc = "responded" /\ framer.route = "unit" /\ framer.status = 200) =>
    LET all == buildFramerItems(framer.units, "")
    IN  \A j \in DOMAIN all :
          all[j].slug = framer.slug => all[j].fields = framer.items[1].fields

\* C33: whenever the run flag of the server is set, the job some trigger
\* started under the guard is still in flight: the flag does not outlive the
\* job, however the job ended.
C33_FlagClearedOnSettle ==
  LET flag == IF server = "unified" THEN onSiteRunning ELSE appFolioRunning
  IN  flag => \/ (guarded = "tracked" /\ run.pc # "idle")
              \/ (guarded = "other" /\ others > 0)

\* A job started under the guard of the AppFolio server has failed and
\* settled, and the flag is clear.
C33_Witness ==
  /\ server = "appfolio"
  /\ stats.started = 1
  /\ result = "failed"
  /\ hist[AppFolioProp].fetched = "failed"
  /\ ~appFolioRunning

C35_ShownIffListed ==
  (server = "appfolio" /\ result = "done" /\ ~hist[AppFolioProp].throttled) =>
    \A j \in DOMAIN store[COLLECTION_ID] :
      LET fieldData == store[COLLECTION_ID][j].fieldData
          slug == fieldData["slug"].s
      IN  slug # "" =>
            /\ fieldData["show-online"] = Bool(slug \in DOMAIN unitMap)
            /\ slug \notin DOMAIN unitMap => fieldData["available-date"] = Null

\* Such a run has ended, and it has sent a PATCH for the item of slug 103,
\* which is not on the listings page.
C35_Witness ==
  /\ server = "appfolio"
  /\ result = "done"
  /\ ~hist[AppFolioProp].throttled
  /\ ApartmentItemId(AppFolioProp, 3) \in hist[AppFolioProp].attempted
  /\ ApartmentItemId(AppFolioProp, 1) \in hist[AppFolioProp].attempted

\* C36: an AppFolio run whose request for the listings page failed has sent
\* no store read, no PATCH and no publish, and has ended.
C36_FailedCrawlWritesNothing ==
  (server = "appfolio" /\ hist[AppFolioProp].fetched = "failed") =>
    /\ hist[AppFolioProp].read = {}
    /\ hist[AppFolioProp].attempted = {}
    /\ hist[AppFolioProp].publishes = 0
    /\ run.pc = "idle"

\* The request for the listings page has failed while the store holds, shown,
\* an item that is not on the page.
C36_Witness ==
  /\ server = "appfolio"
  /\ hist[AppFolioProp].fetched = "failed"
  /\ store[COLLECTION_ID][3].fieldData = Listed("103")

\* C37: a call of fetchAllWebflowData, of either file, that has sent a page
\* request comes to return or to throw; of the responses of one call at most
\* RetryBudget + 1 are 429, the last of them making the call throw, whatever
\* pages they were for; and the call sends at most RetryBudget + 1 requests
\* for each page of the collection and the empty page after the last.
C37_ReadTerminates ==
  /\ [](call.fn = "get" =>
          LET throttles == Cardinality({ i \in DOMAIN call.log : call.log[i] = "429" })
              pages == (Len(call.coll) \div PageLimit) + 1
          IN  /\ throttles <= RetryBudget + 1
              /\ throttles = RetryBudget + 1 => call.outcome = "threw"
              /\ Len(call.log) <= (RetryBudget + 1) * pages)
  /\ (call.fn = "get" /\ call.outcome = "pending")
       ~> (call.outcome \in {"returned", "threw"})

\* A call has thrown on its fourth 429, after pages that were read.
C37_Witness ==
  /\ call.fn = "get"
  /\ call.outcome = "threw"
  /\ Cardinality({ i \in DOMAIN call.log : call.log[i] = "429" }) = RetryBudget + 1
  /\ Len(call.log) > RetryBudget + 1
  /\ call.log[1] = "ok"

\* C38: the field data of a PATCH a run has sent holds only mapped fields of
\* the kind of item it is for, and every item of the store keeps its id, its
\* slug and its set of fields.
C38_PatchesOnlyMappedFields ==
  /\ run.pc = "patch" =>
       LET fieldData == IF server = "unified"
                          THEN OS_newData(OS_prop(run), run.kind, run.u)
                          ELSE AF_newData(run.items[run.u])
       IN  DOMAIN fieldData \subseteq
             IF run.kind = "units"
               THEN {"available-date", "effective-rent-amount",
                     "original-rent-amount", "show-online"}
               ELSE {"minimum-rent", "maximum-rent", "available-units-count"}
  /\ \A c \in Collections :
       \A j \in DOMAIN store[c] :
         IF IsApartments(c)
           THEN /\ store[c][j].id = ApartmentItemId(PropOf(c), j)
                /\ store[c][j].fieldData["slug"] = Str(StoreSlugs[j])
                /\ DOMAIN store[c][j].fieldData = DOMAIN Blank(StoreSlugs[j])
           ELSE /\ store[c][j].id = FloorplanItemId(PropOf(c), j)
                /\ store[c][j].fieldData["slug"] = FloorplanBlank["slug"]
                /\ DOMAIN store[c][j].fieldData = DOMAIN FloorplanBlank

\* The AppFolio run has sent the PATCH that hides the item of slug 103, after
\* the PATCH of another item was applied.
C38_Witness ==
  /\ server = "appfolio"
  /\ run.pc = "patch"
  /\ run.items[run.u].id = ApartmentItemId(AppFolioProp, 3)
  /\ AF_newData(run.items[run.u]) = AF_missNewData
  /\ store[COLLECTION_ID][1].fieldData = AF_Synced("101")
  /\ ApartmentItemId(AppFolioProp, 1) \in hist[AppFolioProp].attempted

====
